---- MODULE Spec2Model ----
(***************************************************************************)
(* A model of mikroserve: the RateLimiter (src/RateLimiter.ts), the Router *)
(* (src/Router.ts) and the request pipeline of MikroServe                  *)
(* (src/MikroServe.ts).                                                    *)
(*                                                                         *)
(* Three specifications share the variables:                               *)
(*   SpecRL      the RateLimiter driven directly through its interface     *)
(*   SpecRouter  the Router's registration and match operations            *)
(*   Spec        the request pipeline with concurrently in-flight requests *)
(***************************************************************************)
EXTENDS Integers, Sequences, FiniteSets, TLC

\* ------------------------------------------------------------------------
\* Bounds of the model
\* ------------------------------------------------------------------------
MaxLimit == 2          \* largest quota a limiter is constructed with
MaxCalls == 3          \* isAllowed calls made in one behaviour of SpecRL
MaxTicks == 2          \* clock advances in one behaviour
MaxRegs == 2           \* registration calls made on one Router
MaxGlobal == 1         \* global middlewares registered with use()
MaxReqs == 2           \* request slots (requests in flight at once)
MaxServed == 2         \* requests received in one behaviour
MaxPathLen == 6        \* characters of a path match is called with
MaxConcTicks == 1      \* clock advances while requests are in flight at once
MaxAgain == 2          \* calls of next() after a middleware's first, in one request

\* ------------------------------------------------------------------------
\* RateLimiter state
\* ------------------------------------------------------------------------
VARIABLES
  limit,        \* RateLimiter.limit
  windowMs,     \* RateLimiter.windowMs
  requests,     \* RateLimiter.requests: key -> entry, NoEntry when absent
  now,          \* Date.now()
  nextSweep,    \* the instant the setInterval timer is next due
  ncalls,       \* isAllowed calls made so far (bounds the behaviour)
  nticks,       \* clock advances made so far (bounds the behaviour)
  lastCall,     \* the most recent call on the limiter's interface
  refStart,     \* per key: instant of the first call of the current window
  refN,         \* per key: calls made in the current window
  refAdmitted,  \* per key: calls admitted in the current window
  twin          \* a RateLimiter given the same calls at the same instants
                \* whose timer never fires: its requests, and what its
                \* most recent call returned

rlVars == <<limit, windowMs, requests, now, nextSweep, ncalls, nticks,
            lastCall, refStart, refN, refAdmitted, twin>>

\* ------------------------------------------------------------------------
\* Router state
\* ------------------------------------------------------------------------
VARIABLES
  routes,             \* Router.routes, in registration order
  globalMiddlewares,  \* Router.globalMiddlewares, in registration order
  pathPatterns,       \* Router.pathPatterns: template -> PathPattern
  nregs,              \* registration calls made so far (bounds the behaviour)
  lastMatch           \* the call of Router.match made last on the current
                      \* route table, and its result

routerVars == <<routes, globalMiddlewares, pathPatterns, nregs, lastMatch>>

\* ------------------------------------------------------------------------
\* MikroServe state
\* ------------------------------------------------------------------------
VARIABLES
  config,   \* MikroServe.config
  req,      \* per request slot: the request, its body stream and the
            \* position of its requestHandler / middleware chain
  res,      \* per request slot: the response object
  served,   \* requests received so far (bounds the behaviour)
  server,   \* the listener createServer() made, or the fault it raised
  heap      \* the objects the contexts refer to: reference -> properties

pipeVars == <<config, req, res, served, server, heap>>

NoEntry == [count |-> -1, resetTime |-> -1]
None == 0 - 1

\* The client addresses callers pass; "" stands for an empty or undefined
\* address.
Ips == {"", "unknown", "ip1"}

\* A variant of Key that keeps an empty address as a key of its own.
KeyVerbatim(ip) == ip

\* const key = ip || 'unknown'
Key(ip) == IF ip = "" THEN "unknown" ELSE ip

Keys == {Key(ip) : ip \in Ips}

\* this.windowMs = windowSeconds * 1000
WindowMsOf(windowSeconds) == windowSeconds * 1000

WindowSecondsSet == {1}

\* !entry || entry.resetTime < now
Expired(entry, t) == entry = NoEntry \/ entry.resetTime < t

\* A variant of IsAllowedEntry that never starts a new window for an
\* existing entry.
IsAllowedEntryNoExpiry(reqs, ip, t) ==
  LET entry == reqs[Key(ip)]
      cur == IF entry = NoEntry
               THEN [count |-> 0, resetTime |-> t + windowMs]
               ELSE entry
  IN [cur EXCEPT !.count = @ + 1]

\* A variant of IsAllowedEntry that counts only while below the limit.
IsAllowedEntryNoCountPastLimit(reqs, ip, t) ==
  LET entry == reqs[Key(ip)]
      cur == IF Expired(entry, t)
               THEN [count |-> 0, resetTime |-> t + windowMs]
               ELSE entry
  IN IF cur.count < limit + 1 THEN [cur EXCEPT !.count = @ + 1]
     ELSE [cur EXCEPT !.count = 1]

\* The entry of ip's key after isAllowed(ip) at instant t: a fresh entry
\* when there is none or its window has elapsed, then entry.count++.
IsAllowedEntry(reqs, ip, t) ==
  LET entry == reqs[Key(ip)]
      cur == IF Expired(entry, t)
               THEN [count |-> 0, resetTime |-> t + windowMs]
               ELSE entry
  IN [cur EXCEPT !.count = @ + 1]

\* A variant of IsAllowedMap in which the increment of an entry that
\* exists already is lost.
IsAllowedMapLostUpdate(reqs, ip, t) ==
  IF reqs[Key(ip)] = NoEntry
    THEN [reqs EXCEPT ![Key(ip)] = IsAllowedEntry(reqs, ip, t)]
    ELSE reqs

\* this.requests after isAllowed(ip)
IsAllowedMap(reqs, ip, t) == [reqs EXCEPT ![Key(ip)] = IsAllowedEntry(reqs, ip, t)]

\* A variant of IsAllowedResult that admits one call too many.
IsAllowedResultOffByOne(reqs, ip, t) == IsAllowedEntry(reqs, ip, t).count <= limit + 1

\* return entry.count <= this.limit
IsAllowedResult(reqs, ip, t) == IsAllowedEntry(reqs, ip, t).count <= limit

Max(a, b) == IF a > b THEN a ELSE b

\* A variant of GetRemainingRequests without the floor at zero.
GetRemainingRequestsUnfloored(reqs, ip, t) ==
  LET entry == reqs[Key(ip)]
  IN IF Expired(entry, t) THEN limit ELSE limit - entry.count

\* getRemainingRequests(ip)
GetRemainingRequests(reqs, ip, t) ==
  LET entry == reqs[Key(ip)]
  IN IF Expired(entry, t) THEN limit ELSE Max(0, limit - entry.count)

\* A variant of GetResetTime that always projects one window from now.
GetResetTimeAlwaysProjected(reqs, ip, t) == (t + windowMs) \div 1000

\* getResetTime(ip): Math.floor(... / 1000)
GetResetTime(reqs, ip, t) ==
  LET entry == reqs[Key(ip)]
  IN IF Expired(entry, t) THEN (t + windowMs) \div 1000
     ELSE entry.resetTime \div 1000

\* A variant of CleanupMap that also deletes the entries whose window ends
\* at this very instant.
CleanupMapInclusive(reqs, t) ==
  [k \in DOMAIN reqs |->
     IF reqs[k] # NoEntry /\ reqs[k].resetTime <= t THEN NoEntry ELSE reqs[k]]

\* cleanup(): delete every entry with resetTime < now
CleanupMap(reqs, t) ==
  [k \in DOMAIN reqs |->
     IF reqs[k] # NoEntry /\ reqs[k].resetTime < t THEN NoEntry ELSE reqs[k]]

\* ------------------------------------------------------------------------
\* Router: path templates, patterns and matching
\* ------------------------------------------------------------------------
\* Strings are sequences of one-character strings.
Undef == <<"undefined">>     \* the value of a capture group that took no part
WildcardName == <<"w", "i", "l", "d", "c", "a", "r", "d">>

\* The first index >= j of s that holds "/" (Len(s) + 1 if none): where a
\* match of [^/]+ that starts at j ends.
RECURSIVE NameEnd(_, _)
NameEnd(s, j) == IF j > Len(s) \/ s[j] = "/" THEN j ELSE NameEnd(s, j + 1)

\* /\/:[^/]+/ matches at index i of s
ParamAt(s, i) == i + 2 <= Len(s) /\ s[i] = "/" /\ s[i + 1] = ":" /\ s[i + 2] # "/"

\* path.replace(/\/:[^/]+/g, ...): the pattern source as a sequence of items,
\* "chr" a character of regular-expression source, "param" the text ([^/]+)
\* with the name the callback pushed to paramNames.
RECURSIVE ReplaceParams(_, _)
ReplaceParams(s, i) ==
  IF i > Len(s) THEN <<>>
  ELSE IF ParamAt(s, i)
    THEN <<[k |-> "chr", c |-> "/", name |-> <<>>],
           [k |-> "param", c |-> "", name |-> SubSeq(s, i + 2, NameEnd(s, i + 2) - 1)]>>
         \o ReplaceParams(s, NameEnd(s, i + 2))
    ELSE <<[k |-> "chr", c |-> s[i], name |-> <<>>]>> \o ReplaceParams(s, i + 1)

IsChr(item, ch) == item.k = "chr" /\ item.c = ch

\* pattern.endsWith('/*')
EndsWithWildcard(items) ==
  /\ Len(items) >= 2
  /\ IsChr(items[Len(items) - 1], "/")
  /\ IsChr(items[Len(items)], "*")

\* A variant of PatternSource that makes the trailing slash optional for
\* every template, also one that does not end in a slash.
PatternSourceAlwaysOptSlash(path) ==
  LET items == ReplaceParams(path, 1)
  IN IF EndsWithWildcard(items)
       THEN SubSeq(items, 1, Len(items) - 2) \o <<[k |-> "wild", c |-> "", name |-> WildcardName]>>
     ELSE IF Len(items) >= 1 /\ IsChr(items[Len(items)], "/")
       THEN items \o <<[k |-> "chr", c |-> "?", name |-> <<>>]>>
     ELSE items \o <<[k |-> "chr", c |-> "/", name |-> <<>>],
                     [k |-> "chr", c |-> "?", name |-> <<>>]>>

\* A variant of PatternSource that slices one character, not two, off a
\* template ending in /*.
PatternSourceSliceOne(path) ==
  LET items == ReplaceParams(path, 1)
  IN IF EndsWithWildcard(items)
       THEN SubSeq(items, 1, Len(items) - 1) \o <<[k |-> "wild", c |-> "", name |-> WildcardName]>>
     ELSE IF Len(items) >= 1 /\ IsChr(items[Len(items)], "/")
       THEN items \o <<[k |-> "chr", c |-> "?", name |-> <<>>]>>
     ELSE items

\* The source handed to new RegExp (between ^ and $): a trailing /* becomes
\* the item "wild", the text (?:/(.*))?; otherwise a trailing / becomes /?.
PatternSource(path) ==
  LET items == ReplaceParams(path, 1)
  IN IF EndsWithWildcard(items)
       THEN SubSeq(items, 1, Len(items) - 2) \o <<[k |-> "wild", c |-> "", name |-> WildcardName]>>
     ELSE IF Len(items) >= 1 /\ IsChr(items[Len(items)], "/")
       THEN items \o <<[k |-> "chr", c |-> "?", name |-> <<>>]>>
     ELSE items

\* paramNames: the names pushed by the replace callback, then 'wildcard'
ParamNames(path) ==
  LET items == PatternSource(path)
      named == SelectSeq(items, LAMBDA it : it.k \in {"param", "wild"})
  IN [i \in 1..Len(named) |-> named[i].name]

Quantifiers == {"?", "*", "+"}

\* new RegExp(source): the atoms of the source, each with its quantifier
\* ("1" when none follows); "." is the any-character atom.
RECURSIVE ParseAtoms(_, _)
ParseAtoms(items, i) ==
  IF i > Len(items) THEN <<>>
  ELSE LET it == items[i]
           quantified == /\ i + 1 <= Len(items)
                         /\ items[i + 1].k = "chr"
                         /\ items[i + 1].c \in Quantifiers
           q == IF quantified THEN items[i + 1].c ELSE "1"
           kind == IF IsChr(it, ".") THEN "any" ELSE it.k
       IN <<[k |-> kind, c |-> it.c, q |-> q]>>
          \o ParseAtoms(items, IF quantified THEN i + 2 ELSE i + 1)

\* Every "(" of the source is closed by a later ")" and every ")" closes one.
RECURSIVE GroupsClosed(_, _, _)
GroupsClosed(items, i, depth) ==
  IF i > Len(items) THEN depth = 0
  ELSE IF IsChr(items[i], "(") THEN GroupsClosed(items, i + 1, depth + 1)
  ELSE IF IsChr(items[i], ")") THEN depth > 0 /\ GroupsClosed(items, i + 1, depth - 1)
  ELSE GroupsClosed(items, i + 1, depth)

\* new RegExp(source) throws a SyntaxError when a quantifier has nothing to
\* repeat, and when a group is unterminated or a ")" is unmatched. (The
\* groups the router writes itself are the items "param" and "wild"; a
\* closed group written in a template is in none of the templates used.)
RegExpValid(items) ==
  /\ GroupsClosed(items, 1, 0)
  /\ \A i \in 1..Len(ParseAtoms(items, 1)) :
        LET a == ParseAtoms(items, 1)[i]
        IN ~(a.k = "chr" /\ a.c \in Quantifiers)

\* createPathPattern(path)
CreatePathPattern(path) ==
  [pattern |-> ParseAtoms(PatternSource(path), 1), paramNames |-> ParamNames(path)]

\* ---- RegExp.prototype.exec for the anchored patterns above ----
NoMatch == [ok |-> FALSE, caps |-> <<>>]

\* A variant of AtomAccepts in which a parameter's group is (.+).
AtomAcceptsParamAnything(a, ch) ==
  CASE a.k = "chr" -> ch = a.c
    [] a.k = "any" -> TRUE
    [] a.k = "param" -> TRUE
    [] OTHER -> FALSE

\* One character accepted by one repetition of atom a
AtomAccepts(a, ch) ==
  CASE a.k = "chr" -> ch = a.c
    [] a.k = "any" -> TRUE
    [] a.k = "param" -> ch # "/"
    [] OTHER -> FALSE

\* The number of consecutive characters of s from index j that a accepts
RECURSIVE Run(_, _, _)
Run(a, s, j) == IF j <= Len(s) /\ AtomAccepts(a, s[j]) THEN 1 + Run(a, s, j + 1) ELSE 0

Min(a, b) == IF a < b THEN a ELSE b

RECURSIVE MatchFrom(_, _, _, _)
RECURSIVE TryReps(_, _, _, _, _, _)
RECURSIVE TryWild(_, _, _, _, _)

\* Greedy repetition with backtracking: atom ai takes k characters from j,
\* k tried from the largest down to lo.
TryReps(atoms, ai, s, j, k, lo) ==
  IF k < lo THEN NoMatch
  ELSE LET r == MatchFrom(atoms, ai + 1, s, j + k)
       IN IF r.ok
            THEN IF atoms[ai].k = "param"
                   THEN [ok |-> TRUE, caps |-> <<SubSeq(s, j, j + k - 1)>> \o r.caps]
                   ELSE r
            ELSE TryReps(atoms, ai, s, j, k - 1, lo)

\* (?:/(.*))? with s[j] = "/": the group (.*) takes k characters after the
\* slash, k tried from the largest down to 0.
TryWild(atoms, ai, s, j, k) ==
  IF k < 0 THEN NoMatch
  ELSE LET r == MatchFrom(atoms, ai + 1, s, j + 1 + k)
       IN IF r.ok
            THEN [ok |-> TRUE, caps |-> <<SubSeq(s, j + 1, j + k)>> \o r.caps]
            ELSE TryWild(atoms, ai, s, j, k - 1)

\* The atoms from index ai match s from index j up to its end ($).
MatchFrom(atoms, ai, s, j) ==
  IF ai > Len(atoms) THEN [ok |-> j = Len(s) + 1, caps |-> <<>>]
  ELSE LET a == atoms[ai]
       IN IF a.k = "wild"
            THEN LET taken == IF j <= Len(s) /\ s[j] = "/"
                                THEN TryWild(atoms, ai, s, j, Len(s) - j)
                                ELSE NoMatch
                     skipped == MatchFrom(atoms, ai + 1, s, j)
                 IN IF taken.ok THEN taken
                    ELSE IF skipped.ok
                      THEN [ok |-> TRUE, caps |-> <<Undef>> \o skipped.caps]
                      ELSE NoMatch
            ELSE LET run == Run(a, s, j)
                     lo == IF a.k = "param" \/ a.q \in {"1", "+"} THEN 1 ELSE 0
                     hi == IF a.k # "param" /\ a.q \in {"1", "?"} THEN Min(run, 1) ELSE run
                 IN TryReps(atoms, ai, s, j, hi, lo)

\* pathPattern.pattern.exec(path)
Exec(pattern, path) == MatchFrom(pattern.pattern, 1, path, 1)

\* match[index + 1] || ''
OrEmpty(cap) == IF cap = Undef THEN <<>> ELSE cap

\* params: paramNames.forEach((name, index) => params[name] = ...), a later
\* assignment to the same name replacing an earlier one.
ParamsOf(names, caps) ==
  [n \in {names[i] : i \in DOMAIN names} |->
     LET last == CHOOSE i \in DOMAIN names :
                   names[i] = n /\ \A i2 \in DOMAIN names : names[i2] = n => i2 <= i
     IN OrEmpty(caps[last])]

NoParams == [n \in {} |-> <<>>]
NullMatch == [idx |-> 0, params |-> NoParams]

\* The loop body of match for route i: the route is returned when its method
\* is the request's, its template has a cached pattern and the pattern
\* matches the path.
RouteMatches(rts, pps, i, method, path) ==
  /\ rts[i].method = method
  /\ rts[i].path \in DOMAIN pps
  /\ Exec(pps[rts[i].path], path).ok

\* A variant of MatchFromIndex that does not compare the route's method.
RECURSIVE MatchFromIndexAnyMethod(_, _, _, _, _)
MatchFromIndexAnyMethod(rts, pps, i, method, path) ==
  IF i > Len(rts) THEN NullMatch
  ELSE IF rts[i].path \in DOMAIN pps /\ Exec(pps[rts[i].path], path).ok
    THEN [idx |-> i,
          params |-> ParamsOf(pps[rts[i].path].paramNames,
                              Exec(pps[rts[i].path], path).caps)]
    ELSE MatchFromIndexAnyMethod(rts, pps, i + 1, method, path)

\* A variant of MatchFromIndex that returns the last matching route.
RECURSIVE MatchFromIndexLastWins(_, _, _, _, _)
MatchFromIndexLastWins(rts, pps, i, method, path) ==
  IF i > Len(rts) THEN NullMatch
  ELSE LET later == MatchFromIndexLastWins(rts, pps, i + 1, method, path)
       IN IF later.idx # 0 THEN later
          ELSE IF RouteMatches(rts, pps, i, method, path)
            THEN [idx |-> i,
                  params |-> ParamsOf(pps[rts[i].path].paramNames,
                                      Exec(pps[rts[i].path], path).caps)]
            ELSE NullMatch

\* match(method, path), the for loop from route i on: idx is the position of
\* the returned route in routes, 0 for null.
RECURSIVE MatchFromIndex(_, _, _, _, _)
MatchFromIndex(rts, pps, i, method, path) ==
  IF i > Len(rts) THEN NullMatch
  ELSE IF RouteMatches(rts, pps, i, method, path)
    THEN [idx |-> i,
          params |-> ParamsOf(pps[rts[i].path].paramNames,
                              Exec(pps[rts[i].path], path).caps)]
    ELSE MatchFromIndex(rts, pps, i + 1, method, path)

\* Router.match(method, path)
Match(rts, pps, method, path) == MatchFromIndex(rts, pps, 1, method, path)

\* this.pathPatterns.set(key, value)
MapSet(m, key, value) == [x \in DOMAIN m \cup {key} |-> IF x = key THEN value ELSE m[x]]

\* register: this.routes.push({ method, path, handler, middlewares })
RegisterRoutes(rts, method, path, handler, mws) ==
  Append(rts, [method |-> method, path |-> path, handler |-> handler, middlewares |-> mws])

\* register: this.pathPatterns.set(path, this.createPathPattern(path)); the
\* map is left as it was when new RegExp throws.
RegisterPatterns(pps, path) ==
  IF RegExpValid(PatternSource(path)) THEN MapSet(pps, path, CreatePathPattern(path)) ELSE pps

\* A variant of AnyMethods without OPTIONS.
AnyMethodsWithoutOptions == <<"GET", "POST", "PUT", "DELETE", "PATCH">>

AnyMethods == <<"GET", "POST", "PUT", "DELETE", "PATCH", "OPTIONS">>

\* any: register under each of the six methods in turn
RECURSIVE AnyRoutes(_, _, _, _, _)
AnyRoutes(rts, i, path, handler, mws) ==
  IF i > Len(AnyMethods) THEN rts
  ELSE AnyRoutes(RegisterRoutes(rts, AnyMethods[i], path, handler, mws), i + 1, path, handler, mws)

\* new Map()
NoPatterns == [x \in {} |-> CreatePathPattern(<<>>)]

NoMatchCall == [method |-> "", path |-> <<>>, idx |-> 0, params |-> NoParams]

\* new Router()
RouterConstructed ==
  /\ routes = <<>>
  /\ globalMiddlewares = <<>>
  /\ pathPatterns = NoPatterns
  /\ nregs = 0
  /\ lastMatch = NoMatchCall

\* ------------------------------------------------------------------------
\* MikroServe: configuration, requests and responses
\* ------------------------------------------------------------------------
Reqs == 1..MaxReqs

\* ---- The context of a request (Router.handle) ----
\* The objects a context holds are on the heap: params, query and state are
\* references to them, and two contexts share an object when they hold the
\* same reference. The objects made for the request in slot r:
ContextFields == {"params", "query", "state"}
Objects == Reqs \X ContextFields

\* A variant of ContextOf in which state is one object for all contexts.
ContextOfSharedState(r) ==
  [params |-> <<r, "params">>, query |-> <<r, "query">>, state |-> <<1, "state">>]

\* const context = { params, query, state: {}, ... }: the references of the
\* objects made by this call of handle
ContextOf(r) ==
  [params |-> <<r, "params">>, query |-> <<r, "query">>, state |-> <<r, "state">>]

NoContext == [params |-> <<0, "">>, query |-> <<0, "">>, state |-> <<0, "">>]

\* What the middlewares of a request have written, by field
NoWrites == [f \in ContextFields |-> NoParams]

\* const MAX_BODY_SIZE = 1024 * 1024
MAX_BODY_SIZE == 1024 * 1024

\* configDefaults().rateLimit.requestsPerMinute
DefaultRequestsPerMinute == 100

\* The window MikroServe constructs its RateLimiter with, in seconds
RateLimitWindowSeconds == 60

\* config.rateLimit.requestsPerMinute || configDefaults().rateLimit.requestsPerMinute
RequestsPerMinuteOf(cfg) ==
  IF cfg.rateLimit.requestsPerMinute = 0
    THEN DefaultRequestsPerMinute
    ELSE cfg.rateLimit.requestsPerMinute

\* The bound rateLimitMiddleware, as an entry of globalMiddlewares
RateLimitMw == "rateLimit"

Config(debug, enabled, rpm) ==
  [debug |-> debug,
   rateLimit |-> [enabled |-> enabled, requestsPerMinute |-> rpm],
   useHttps |-> FALSE, useHttp2 |-> FALSE,
   sslCert |-> "", sslKey |-> "", sslCa |-> "",
   allowedDomains |-> {"*"}]

\* The configuration of a server with the given transport flags and
\* allowed-origin list
ServerConfig(debug, enabled, rpm, useHttps, useHttp2, allowedDomains) ==
  [debug |-> debug,
   rateLimit |-> [enabled |-> enabled, requestsPerMinute |-> rpm],
   useHttps |-> useHttps, useHttp2 |-> useHttp2,
   sslCert |-> "", sslKey |-> "", sslCa |-> "",
   allowedDomains |-> allowedDomains]

\* The configuration of a server with the given transport flags and
\* certificate, key and CA paths ("" when not configured)
TlsConfig(useHttps, useHttp2, sslCert, sslKey, sslCa) ==
  [debug |-> FALSE,
   rateLimit |-> [enabled |-> FALSE, requestsPerMinute |-> 0],
   useHttps |-> useHttps, useHttp2 |-> useHttp2,
   sslCert |-> sslCert, sslKey |-> sslKey, sslCa |-> sslCa,
   allowedDomains |-> {"*"}]

\* ---- createServer ----
\* The files there are to read
FileSystem == {"key.pem", "cert.pem", "ca.pem"}

\* What createServer() comes to: the listener returned ("http", "https" or
\* "http2") or the fault thrown, the files read on the way, in order, and
\* whether the listener's socket is open.
ServerOutcome(kind, msg, reads) ==
  [kind |-> kind, msg |-> msg, reads |-> reads, listening |-> FALSE]

NoServer == ServerOutcome("none", "", <<>>)

\* The readFileSync calls of httpsOptions, in order: key, cert and, when
\* configured, ca
TlsFiles(cfg) ==
  <<cfg.sslKey, cfg.sslCert>> \o (IF cfg.sslCa # "" THEN <<cfg.sslCa>> ELSE <<>>)

\* The secure listener, or the fault of the first file that cannot be read,
\* or, with matches FALSE, the fault of a key that is not the certificate's
SecureServer(cfg, kind, matches) ==
  LET files == TlsFiles(cfg)
      missing == {i \in 1..Len(files) : files[i] \notin FileSystem}
      first == CHOOSE i \in missing : \A j \in missing : i <= j
  IN IF missing # {} THEN ServerOutcome("fault", "ENOENT", SubSeq(files, 1, first))
     ELSE IF ~matches
       THEN ServerOutcome("fault", "SSL certificate and key do not match", files)
     ELSE ServerOutcome(kind, "", files)

\* A variant of CreateServerOutcome that asks for the paths of a TLS
\* listener only, not of an HTTP/2 one.
CreateServerOutcomeHttpsChecked(cfg, matches) ==
  IF cfg.useHttp2
    THEN SecureServer(cfg, "http2", matches)
  ELSE IF cfg.useHttps
    THEN IF cfg.sslCert = "" \/ cfg.sslKey = ""
           THEN ServerOutcome("fault",
                  "SSL certificate and key paths are required when useHttps is true", <<>>)
           ELSE SecureServer(cfg, "https", matches)
  ELSE ServerOutcome("http", "", <<>>)

\* createServer()
CreateServerOutcome(cfg, matches) ==
  IF cfg.useHttp2
    THEN IF cfg.sslCert = "" \/ cfg.sslKey = ""
           THEN ServerOutcome("fault",
                  "SSL certificate and key paths are required when useHttp2 is true", <<>>)
           ELSE SecureServer(cfg, "http2", matches)
  ELSE IF cfg.useHttps
    THEN IF cfg.sslCert = "" \/ cfg.sslKey = ""
           THEN ServerOutcome("fault",
                  "SSL certificate and key paths are required when useHttps is true", <<>>)
           ELSE SecureServer(cfg, "https", matches)
  ELSE ServerOutcome("http", "", <<>>)

\* Bodies of responses: none, the engine's {error, message} objects, and
\* the objects user code returns, told apart by who made them.
NoBody == [kind |-> "none", error |-> "", message |-> "", src |-> ""]
ErrorBody(e, m) == [kind |-> "json", error |-> e, message |-> m, src |-> ""]
UserBody(src) == [kind |-> "json", error |-> "", message |-> "", src |-> src]

\* Bodies that are not objects: null, a string, a Buffer and a number, with
\* their content in src
NullBody == [kind |-> "null", error |-> "", message |-> "", src |-> ""]
StringBody(s) == [kind |-> "string", error |-> "", message |-> "", src |-> s]
BufferBody(b) == [kind |-> "buffer", error |-> "", message |-> "", src |-> b]
NumberBody(n) == [kind |-> "number", error |-> "", message |-> "", src |-> n]

\* An object that refers to itself, which JSON.stringify cannot convert
CyclicBody == [kind |-> "cyclic", error |-> "", message |-> "", src |-> ""]

\* A HandlerResponse { statusCode, body, headers }
Response(status, body, headers) ==
  [statusCode |-> status, body |-> body, headers |-> headers, isRaw |-> FALSE]

\* A HandlerResponse with isRaw: true
RawResponse(status, body, headers) ==
  [statusCode |-> status, body |-> body, headers |-> headers, isRaw |-> TRUE]

NoResp == Response(0, NoBody, {})

\* ---- The response helpers of a context (Router.handle) ----
\* An argument left out is None (a number) or "" (a content type), and
\* takes the parameter's default.
OrDefault(arg, default) == IF arg = None THEN default ELSE arg

\* content.length.toString() of the Buffers "" and "b1"
ByteLength(content) == IF content = "" THEN "0" ELSE "2"

BinaryHeaders(content, contentType) ==
  {<<"Content-Type", IF contentType = "" THEN "application/octet-stream" ELSE contentType>>,
   <<"Content-Length", ByteLength(content)>>}

HelperNames == {"binary", "text", "form", "json", "html", "redirect"}

\* context.<name>(content, ...): binary(content, contentType, status),
\* redirect(url, status), and (content, status) for the others
Helper(name, content, contentType, status) ==
  CASE name = "binary" ->
         RawResponse(OrDefault(status, 200), BufferBody(content),
                     BinaryHeaders(content, contentType))
    [] name = "text" ->
         Response(OrDefault(status, 200), StringBody(content),
                  {<<"Content-Type", "text/plain">>})
    [] name = "form" ->
         Response(OrDefault(status, 200), StringBody(content),
                  {<<"Content-Type", "application/x-www-form-urlencoded">>})
    [] name = "json" ->
         Response(OrDefault(status, 200), UserBody(content),
                  {<<"Content-Type", "application/json">>})
    [] name = "html" ->
         Response(OrDefault(status, 200), StringBody(content),
                  {<<"Content-Type", "text/html">>})
    [] OTHER ->
         Response(OrDefault(status, 302), NullBody, {<<"Location", content>>})

\* A variant of BoundHelper that is the unbound helper.
BoundHelperUnbound(code, name, content, contentType, status) ==
  Helper(name, content, contentType, status)

\* context.status(code).<name>(content, ...): binary(content, contentType),
\* redirect(url, redirectStatus), and (content) for the others
BoundHelper(code, name, content, contentType, status) ==
  CASE name = "binary" ->
         RawResponse(code, BufferBody(content), BinaryHeaders(content, contentType))
    [] name = "text" ->
         Response(code, StringBody(content), {<<"Content-Type", "text/plain">>})
    [] name = "form" ->
         Response(code, StringBody(content),
                  {<<"Content-Type", "application/x-www-form-urlencoded">>})
    [] name = "json" ->
         Response(code, UserBody(content), {<<"Content-Type", "application/json">>})
    [] name = "html" ->
         Response(code, StringBody(content), {<<"Content-Type", "text/html">>})
    [] OTHER ->
         Response(OrDefault(status, 302), NullBody, {<<"Location", content>>})

RECURSIVE BoundCode(_)
\* The code of the helper set context.status(c1).status(c2)... : status of
\* a bound set is (updatedCode) => this.status(updatedCode), this being the
\* context.
BoundCode(codes) == IF Len(codes) = 1 THEN codes[1] ELSE BoundCode(Tail(codes))

\* A helper call a handler makes: the codes of the status() calls before
\* it, the helper and its arguments
HelperCall(codes, name, content, contentType, status) ==
  [codes |-> codes, name |-> name, content |-> content,
   contentType |-> contentType, status |-> status]

NoHelperCall == HelperCall(<<>>, "", "", "", None)

\* The HandlerResponse the call returns
HelperResult(call) ==
  IF call.codes = <<>>
    THEN Helper(call.name, call.content, call.contentType, call.status)
    ELSE BoundHelper(BoundCode(call.codes), call.name, call.content,
                     call.contentType, call.status)

\* What a call of next(), or of handle, has produced: nothing yet, a value
\* (null, undefined or a HandlerResponse) or a fault.
NoVal == [kind |-> "none", resp |-> NoResp, msg |-> ""]
NullVal == [kind |-> "null", resp |-> NoResp, msg |-> ""]
UndefinedVal == [kind |-> "undefined", resp |-> NoResp, msg |-> ""]
\* A result marked _handled: the handler wrote to the response itself
HandledVal == [kind |-> "handled", resp |-> NoResp, msg |-> ""]
OkVal(resp) == [kind |-> "ok", resp |-> resp, msg |-> ""]
FaultVal(msg) == [kind |-> "fault", resp |-> NoResp, msg |-> msg]

\* ---------------------------------------------------------------------
\* Request bodies (MikroServe.parseBody)
\* ---------------------------------------------------------------------
\* A body text is a sequence of lexemes and a chunk is a piece of it; the
\* value of the content-type header is a sequence of fragments, and
\* contentType.includes(x) is the presence of the fragment x in it.
Includes(contentType, fragment) ==
  \E i \in 1..Len(contentType) : contentType[i] = fragment

RECURSIVE ConcatAll(_)
\* Buffer.concat(bodyChunks).toString('utf8')
ConcatAll(bodyChunks) ==
  IF bodyChunks = <<>> THEN <<>>
  ELSE Head(bodyChunks) \o ConcatAll(Tail(bodyChunks))

RECURSIVE SplitFrom(_, _, _, _)
SplitFrom(s, sep, i, cur) ==
  IF i > Len(s) THEN <<cur>>
  ELSE IF s[i] = sep THEN <<cur>> \o SplitFrom(s, sep, i + 1, <<>>)
  ELSE SplitFrom(s, sep, i + 1, Append(cur, s[i]))

\* The pieces of s between the occurrences of sep
Split(s, sep) == SplitFrom(s, sep, 1, <<>>)

NoMembers == [k \in {} |-> ""]
NoForm == [k \in {} |-> <<>>]

\* A JavaScript value as a request body can hold it: undefined, a scalar
\* (items holds its lexeme), a string (text), an array of scalars (items)
\* or a plain object, whose properties come from JSON (members) or from a
\* form (form); {} is the object with neither.
Value(k, items, members, form, text) ==
  [k |-> k, items |-> items, members |-> members, form |-> form, text |-> text]

Undefined == Value("undefined", <<>>, NoMembers, NoForm, <<>>)
EmptyObject == Value("object", <<>>, NoMembers, NoForm, <<>>)
StringValue(text) == Value("string", <<>>, NoMembers, NoForm, text)

\* JSON texts of the grammar the model covers: null, false, numbers, string
\* literals, arrays of these and objects with such members.
JsonStrings == {"\"\"", "\"a\"", "\"b\""}
JsonScalars == {"null", "false", "0", "1"} \cup JsonStrings
Unquote(lexeme) ==
  IF lexeme = "\"\"" THEN <<>> ELSE IF lexeme = "\"a\"" THEN <<"a">> ELSE <<"b">>

\* The values JavaScript takes for false in a condition, of those above
Falsy(value) ==
  \/ value.k = "undefined"
  \/ value.k = "scalar" /\ value.items \in {<<"null">>, <<"false">>, <<"0">>}
  \/ value.k = "string" /\ value.text = <<>>

\* handle: body: req.body || {}
BodyOrEmptyObject(body) == IF Falsy(body) THEN EmptyObject ELSE body

IsElement(p) == Len(p) = 1 /\ p[1] \in JsonScalars
IsMember(p) ==
  Len(p) = 3 /\ p[1] \in JsonStrings /\ p[2] = ":" /\ p[3] \in JsonScalars

RECURSIVE MembersOf(_, _)
\* A repeated key keeps its last value.
MembersOf(ps, m) ==
  IF ps = <<>> THEN m
  ELSE MembersOf(Tail(ps), MapSet(m, Head(ps)[1], Head(ps)[3]))

\* JSON.parse(bodyString): ok is FALSE where it throws a SyntaxError.
JSONParse(text) ==
  LET n == Len(text)
      inner == SubSeq(text, 2, n - 1)
      parts == Split(inner, ",")
      fail == [ok |-> FALSE, value |-> Undefined]
  IN IF n = 1 /\ text[1] \in JsonStrings
       THEN [ok |-> TRUE, value |-> StringValue(Unquote(text[1]))]
     ELSE IF n = 1 /\ text[1] \in JsonScalars
       THEN [ok |-> TRUE, value |-> Value("scalar", text, NoMembers, NoForm, <<>>)]
     ELSE IF n >= 2 /\ text[1] = "[" /\ text[n] = "]"
       THEN IF inner = <<>>
              THEN [ok |-> TRUE, value |-> Value("array", <<>>, NoMembers, NoForm, <<>>)]
            ELSE IF \A i \in 1..Len(parts) : IsElement(parts[i])
              THEN [ok |-> TRUE,
                    value |-> Value("array", [i \in 1..Len(parts) |-> parts[i][1]],
                                    NoMembers, NoForm, <<>>)]
            ELSE fail
     ELSE IF n >= 2 /\ text[1] = "{" /\ text[n] = "}"
       THEN IF inner = <<>>
              THEN [ok |-> TRUE, value |-> EmptyObject]
            ELSE IF \A i \in 1..Len(parts) : IsMember(parts[i])
              THEN [ok |-> TRUE,
                    value |-> Value("object", <<>>, MembersOf(parts, NoMembers),
                                    NoForm, <<>>)]
            ELSE fail
     ELSE fail

\* application/x-www-form-urlencoded decoding of a name or a value
FormDecode(s) == [i \in 1..Len(s) |-> IF s[i] = "+" THEN " " ELSE s[i]]

IndexOf(s, c) ==
  IF \E i \in 1..Len(s) : s[i] = c
    THEN CHOOSE i \in 1..Len(s) : s[i] = c /\ \A j \in 1..(i - 1) : s[j] # c
    ELSE 0

FormPair(p) ==
  LET e == IndexOf(p, "=")
  IN IF e = 0 THEN <<FormDecode(p), <<>>>>
     ELSE <<FormDecode(SubSeq(p, 1, e - 1)), FormDecode(SubSeq(p, e + 1, Len(p)))>>

\* new URLSearchParams(bodyString): the name/value pairs in order; a
\* leading "?" is dropped and so are empty pieces between "&".
URLSearchParams(text) ==
  LET t == IF text # <<>> /\ text[1] = "?" THEN Tail(text) ELSE text
      kept == SelectSeq(Split(t, "&"), LAMBDA p : p # <<>>)
  IN [i \in 1..Len(kept) |-> FormPair(kept[i])]

RECURSIVE FormData(_, _)
\* forEach((value, key) => { formData[key] = value })
FormData(pairs, formData) ==
  IF pairs = <<>> THEN formData
  ELSE FormData(Tail(pairs), MapSet(formData, Head(pairs)[1], Head(pairs)[2]))

Resolved(value) == [ok |-> TRUE, value |-> value, msg |-> ""]
Rejected(msg) == [ok |-> FALSE, value |-> Undefined, msg |-> msg]

ParseBodyWithoutChunkCheck(contentType, bodyChunks) ==
  LET bodyString == ConcatAll(bodyChunks)
  IN IF Includes(contentType, "application/json")
       THEN IF JSONParse(bodyString).ok
              THEN Resolved(JSONParse(bodyString).value)
              ELSE Rejected("Invalid JSON in request body")
     ELSE IF Includes(contentType, "application/x-www-form-urlencoded")
       THEN Resolved(Value("object", <<>>, NoMembers,
                           FormData(URLSearchParams(bodyString), NoForm), <<>>))
     ELSE Resolved(StringValue(bodyString))

\* What the 'end' handler settles the body promise with, from the
\* content-type header and the chunks buffered.
ParseBody(contentType, bodyChunks) ==
  IF Len(bodyChunks) > 0
    THEN LET bodyString == ConcatAll(bodyChunks)
         IN IF Includes(contentType, "application/json")
              THEN IF JSONParse(bodyString).ok
                     THEN Resolved(JSONParse(bodyString).value)
                     ELSE Rejected("Invalid JSON in request body")
            ELSE IF Includes(contentType, "application/x-www-form-urlencoded")
              THEN Resolved(Value("object", <<>>, NoMembers,
                                  FormData(URLSearchParams(bodyString), NoForm), <<>>))
            ELSE Resolved(StringValue(bodyString))
    ELSE Resolved(EmptyObject)

IdleReq ==
  [pc |-> "idle", method |-> "", path |-> <<>>, ip |-> "", origin |-> "",
   payload |-> <<>>, nread |-> 0, stream |-> "none",
   contentType |-> <<>>, texts |-> <<>>, bodyChunks |-> <<>>,
   bodySize |-> 0, nchunks |-> 0, rejected |-> FALSE,
   settle |-> "pending", bodyMsg |-> "", body |-> Undefined,
   route |-> 0, mws |-> <<>>, handler |-> "", idx |-> 0,
   stack |-> <<>>, val |-> NoVal, trace |-> <<>>,
   short |-> "", wrapped |-> FALSE, raised |-> "", call |-> NoHelperCall,
   search |-> <<>>, context |-> NoContext, contextBody |-> Undefined,
   own |-> NoWrites, again |-> 0]

\* A ServerResponse nothing has been written to
FreshRes ==
  [headers |-> {}, statusCode |-> 200, body |-> NoBody, isRaw |-> FALSE,
   ended |-> FALSE, wire |-> <<>>, writes |-> 0, via |-> "none", thrown |-> ""]

\* res.setHeader(name, value)
SetHeader(h, name, value) == {p \in h : p[1] # name} \cup {<<name, value>>}

HasHeader(h, name) == \E p \in h : p[1] = name

\* A variant of SetCorsHeaders that echoes every Origin the list does not
\* open to all.
SetCorsHeadersEchoAny(h, origin, allowedDomains) ==
  LET h1 == IF origin = "" \/ allowedDomains = {}
              THEN SetHeader(h, "Access-Control-Allow-Origin", "*")
            ELSE IF "*" \in allowedDomains
              THEN SetHeader(h, "Access-Control-Allow-Origin", "*")
            ELSE SetHeader(SetHeader(h, "Access-Control-Allow-Origin", origin),
                           "Vary", "Origin")
      h2 == SetHeader(h1, "Access-Control-Allow-Methods",
                      "GET, POST, PUT, DELETE, PATCH, OPTIONS")
      h3 == SetHeader(h2, "Access-Control-Allow-Headers", "Content-Type, Authorization")
  IN SetHeader(h3, "Access-Control-Max-Age", "86400")

\* setCorsHeaders(res, req); origin "" is an absent Origin header
SetCorsHeaders(h, origin, allowedDomains) ==
  LET h1 == IF origin = "" \/ allowedDomains = {}
              THEN SetHeader(h, "Access-Control-Allow-Origin", "*")
            ELSE IF "*" \in allowedDomains
              THEN SetHeader(h, "Access-Control-Allow-Origin", "*")
            ELSE IF origin \in allowedDomains
              THEN SetHeader(SetHeader(h, "Access-Control-Allow-Origin", origin),
                             "Vary", "Origin")
            ELSE h
      h2 == SetHeader(h1, "Access-Control-Allow-Methods",
                      "GET, POST, PUT, DELETE, PATCH, OPTIONS")
      h3 == SetHeader(h2, "Access-Control-Allow-Headers", "Content-Type, Authorization")
  IN SetHeader(h3, "Access-Control-Max-Age", "86400")

\* A variant of SetSecurityHeaders that looks at the isHttps argument only.
SetSecurityHeadersHttpsOnly(h, isHttps, useHttp2) ==
  LET h1 == SetHeader(h, "X-Content-Type-Options", "nosniff")
      h2 == SetHeader(h1, "X-Frame-Options", "DENY")
      h3 == SetHeader(h2, "Content-Security-Policy",
                      "default-src 'self'; script-src 'self'; object-src 'none'")
      h4 == SetHeader(h3, "X-XSS-Protection", "1; mode=block")
  IN IF isHttps
       THEN SetHeader(h4, "Strict-Transport-Security", "max-age=31536000; includeSubDomains")
       ELSE h4

\* setSecurityHeaders(res, isHttps)
SetSecurityHeaders(h, isHttps, useHttp2) ==
  LET h1 == SetHeader(h, "X-Content-Type-Options", "nosniff")
      h2 == SetHeader(h1, "X-Frame-Options", "DENY")
      h3 == SetHeader(h2, "Content-Security-Policy",
                      "default-src 'self'; script-src 'self'; object-src 'none'")
      h4 == SetHeader(h3, "X-XSS-Protection", "1; mode=block")
  IN IF isHttps \/ useHttp2
       THEN SetHeader(h4, "Strict-Transport-Security", "max-age=31536000; includeSubDomains")
       ELSE h4

\* res.writeHead(statusCode, headers): the headers given are set over the
\* ones the response already has
RECURSIVE WriteHeaders(_, _)
WriteHeaders(h, given) ==
  IF given = {} THEN h
  ELSE LET p == CHOOSE q \in given : TRUE
       IN WriteHeaders(SetHeader(h, p[1], p[2]), given \ {p})

\* What goes to the connection: the head, and the call of res.end with its
\* payload, which is nothing, the chunk given as it is, or a JSON text
WroteHead == [op |-> "writeHead", enc |-> "", data |-> <<>>]
EndBare == [op |-> "end", enc |-> "none", data |-> <<>>]
EndWith(chunk) == [op |-> "end", enc |-> "verbatim", data |-> <<chunk>>]
EndJson(text) == [op |-> "end", enc |-> "json", data |-> text]

Quoted(s) == <<"\"", s, "\"">>

\* JSON.stringify(body)
Stringify(body) ==
  CASE body.kind = "string" -> Quoted(body.src)
    [] body.kind = "number" -> <<body.src>>
    [] body.kind = "null" -> <<"null">>
    [] body.kind = "buffer" ->
         <<"{">> \o Quoted("type") \o <<":">> \o Quoted("Buffer") \o <<",">>
           \o Quoted("data") \o <<":", "[", body.src, "]", "}">>
    [] body.kind = "json" /\ body.error # "" ->
         <<"{">> \o Quoted("error") \o <<":">> \o Quoted(body.error) \o <<",">>
           \o Quoted("message") \o <<":">> \o Quoted(body.message) \o <<"}">>
    [] OTHER -> <<"{">> \o Quoted("by") \o <<":">> \o Quoted(body.src) \o <<"}">>

\* A variant of EndOf without the case of a string body.
EndOfWithoutStringCase(response) ==
  IF response.body.kind \in {"null", "none"} THEN EndBare
  ELSE IF response.isRaw THEN EndWith(response.body.src)
  ELSE EndJson(Stringify(response.body))

\* The call of res.end that respond makes for a response
EndOf(response) ==
  IF response.body.kind \in {"null", "none"} THEN EndBare
  ELSE IF response.isRaw THEN EndWith(response.body.src)
  ELSE IF response.body.kind = "string" THEN EndWith(response.body.src)
  ELSE EndJson(Stringify(response.body))

\* respond(res, response): writeHead, then end with the body
Respond(rs, response, via) ==
  [rs EXCEPT !.statusCode = response.statusCode,
             !.headers = WriteHeaders(rs.headers, response.headers),
             !.body = response.body,
             !.isRaw = response.isRaw,
             !.wire = @ \o <<WroteHead, EndOf(response)>>,
             !.ended = TRUE,
             !.writes = @ + 1,
             !.via = via]

\* res.end cannot be given the body: JSON.stringify throws a TypeError for
\* an object that refers to itself, and res.end throws one for a chunk that
\* is neither a string nor a Buffer.
EndThrows(response) ==
  IF response.body.kind \in {"null", "none"} THEN FALSE
  ELSE IF response.isRaw THEN response.body.kind \notin {"string", "buffer"}
  ELSE response.body.kind = "cyclic"

\* writeHead has been called on the response
HeadWritten(rs) == \E i \in 1..Len(rs.wire) : rs.wire[i] = WroteHead

\* respond(res, response) with its faults. writeHead of an http.ServerResponse
\* throws ERR_HTTP_HEADERS_SENT once a head has been written, while that of
\* an Http2ServerResponse accepts a new head until data is sent; a fault of
\* JSON.stringify or res.end leaves the head written and the response open.
RespondOrThrow(rs, response, via, useHttp2) ==
  IF HeadWritten(rs) /\ (rs.ended \/ ~useHttp2)
    THEN [rs EXCEPT !.thrown = "ERR_HTTP_HEADERS_SENT"]
  ELSE IF EndThrows(response)
    THEN [rs EXCEPT !.statusCode = response.statusCode,
                    !.headers = WriteHeaders(rs.headers, response.headers),
                    !.wire = Append(@, WroteHead),
                    !.thrown = "TypeError"]
  ELSE Respond(rs, response, via)

\* The OPTIONS branch of requestHandler: res.statusCode = 204; res.end()
EndPreflight(rs) ==
  [rs EXCEPT !.statusCode = 204, !.ended = TRUE, !.wire = Append(@, EndBare),
             !.writes = @ + 1, !.via = "preflight"]

JsonHeaders == {<<"Content-Type", "application/json">>}

\* The response rateLimitMiddleware returns when the limiter refuses
TooManyRequests ==
  Response(429, ErrorBody("Too Many Requests", "Rate limit exceeded, please try again later"),
           JsonHeaders)

BadRequest(message) == Response(400, ErrorBody("Bad Request", message), {})

NotFound == Response(404, ErrorBody("Not Found", "The requested endpoint does not exist"), {})

\* A variant of InternalServerError that always discloses the fault's text.
InternalServerErrorDisclosing(debug, message) ==
  Response(500, ErrorBody("Internal Server Error", message), {})

\* The response of requestHandler's catch block
InternalServerError(debug, message) ==
  Response(500,
           ErrorBody("Internal Server Error",
                     IF debug THEN message ELSE "An unexpected error occurred"),
           {})

\* The try block of requestHandler around respond, and its catch block,
\* which calls respond with the 500; a fault of that call leaves
\* requestHandler.
RespondCaught(rs, response, via, debug, useHttp2) ==
  LET first == RespondOrThrow(rs, response, via, useHttp2)
  IN IF first.thrown = "" THEN first
     ELSE RespondOrThrow([first EXCEPT !.thrown = ""],
                         InternalServerError(debug, first.thrown), "500", useHttp2)

PipeIdle ==
  /\ req = [r \in Reqs |-> IdleReq]
  /\ res = [r \in Reqs |-> FreshRes]
  /\ served = 0
  /\ server = NoServer
  /\ heap = [o \in Objects |-> NoParams]

otherThanRL == <<routerVars, pipeVars>>
otherThanRouter == <<rlVars, pipeVars>>
vars == <<rlVars, routerVars, pipeVars>>

NoCall == [op |-> "none", ip |-> "", at |-> None, allowed |-> FALSE, value |-> None]

\* new RateLimiter(l, windowSeconds) constructed at instant 0
RLConstructed(l, windowSeconds) ==
  /\ limit = l
  /\ windowMs = WindowMsOf(windowSeconds)
  /\ requests = [k \in Keys |-> NoEntry]
  /\ now = 0
  /\ nextSweep = WindowMsOf(windowSeconds)
  /\ ncalls = 0
  /\ nticks = 0
  /\ lastCall = NoCall
  /\ refStart = [k \in Keys |-> None]
  /\ refN = [k \in Keys |-> 0]
  /\ refAdmitted = [k \in Keys |-> 0]
  /\ twin = [requests |-> [k \in Keys |-> NoEntry], allowed |-> FALSE, value |-> None]

\* The twin limiter makes the same call at the same instant.
TwinIsAllowed(ip) ==
  twin' = [requests |-> IsAllowedMap(twin.requests, ip, now),
           allowed |-> IsAllowedResult(twin.requests, ip, now),
           value |-> None]

TwinGetRemainingRequests(ip) ==
  twin' = [twin EXCEPT !.allowed = FALSE,
                       !.value = GetRemainingRequests(twin.requests, ip, now)]

TwinGetResetTime(ip) ==
  twin' = [twin EXCEPT !.allowed = FALSE,
                       !.value = GetResetTime(twin.requests, ip, now)]

\* The window bookkeeping of the interface history, kept from the calls'
\* keys and instants alone: a call belongs to the key's current window
\* unless there is none yet or it opened more than windowMs ago.
RefOpens(k, t) == refStart[k] = None \/ t > refStart[k] + windowMs

RefUpdate(ip, t, allowed) ==
  LET k == Key(ip)
      a == IF allowed THEN 1 ELSE 0
  IN /\ refStart' = [refStart EXCEPT ![k] = IF RefOpens(k, t) THEN t ELSE @]
     /\ refN' = [refN EXCEPT ![k] = IF RefOpens(k, t) THEN 1 ELSE @ + 1]
     /\ refAdmitted' = [refAdmitted EXCEPT ![k] = IF RefOpens(k, t) THEN a ELSE @ + a]

\* limiter.isAllowed(ip)
IsAllowed(ip) ==
  /\ ncalls < MaxCalls
  /\ requests' = IsAllowedMap(requests, ip, now)
  /\ lastCall' = [op |-> "isAllowed", ip |-> ip, at |-> now,
                  allowed |-> IsAllowedResult(requests, ip, now),
                  value |-> refStart[Key(ip)]]
  /\ RefUpdate(ip, now, IsAllowedResult(requests, ip, now))
  /\ TwinIsAllowed(ip)
  /\ ncalls' = ncalls + 1
  /\ UNCHANGED <<limit, windowMs, now, nextSweep, nticks>>
  /\ UNCHANGED otherThanRL

\* limiter.getRemainingRequests(ip)
RemainingCall(ip) ==
  /\ lastCall' = [op |-> "getRemainingRequests", ip |-> ip, at |-> now,
                  allowed |-> FALSE,
                  value |-> GetRemainingRequests(requests, ip, now)]
  /\ TwinGetRemainingRequests(ip)
  /\ UNCHANGED <<limit, windowMs, requests, now, nextSweep, ncalls, nticks,
                 refStart, refN, refAdmitted>>
  /\ UNCHANGED otherThanRL

\* limiter.getResetTime(ip)
ResetTimeCall(ip) ==
  /\ lastCall' = [op |-> "getResetTime", ip |-> ip, at |-> now,
                  allowed |-> FALSE,
                  value |-> GetResetTime(requests, ip, now)]
  /\ TwinGetResetTime(ip)
  /\ UNCHANGED <<limit, windowMs, requests, now, nextSweep, ncalls, nticks,
                 refStart, refN, refAdmitted>>
  /\ UNCHANGED otherThanRL

\* The setInterval callback: runs cleanup() once the timer is due; the
\* timer is re-armed one window after the instant the callback runs.
Cleanup ==
  /\ now >= nextSweep
  /\ requests' = CleanupMap(requests, now)
  /\ nextSweep' = now + windowMs
  /\ UNCHANGED <<limit, windowMs, now, ncalls, nticks, lastCall, refStart, refN,
                 refAdmitted, twin>>
  /\ UNCHANGED otherThanRL

\* The clock advances.
Deltas == {1, windowMs}

Tick(d) ==
  /\ nticks < MaxTicks
  /\ now' = now + d
  /\ nticks' = nticks + 1
  /\ UNCHANGED <<limit, windowMs, requests, nextSweep, ncalls, lastCall,
                 refStart, refN, refAdmitted, twin>>
  /\ UNCHANGED otherThanRL

InitRL ==
  /\ \E l \in 0..MaxLimit, ws \in WindowSecondsSet : RLConstructed(l, ws)
  /\ RouterConstructed
  /\ config = Config(FALSE, FALSE, 0)
  /\ PipeIdle

NextRL ==
  \/ \E ip \in Ips : IsAllowed(ip)
  \/ \E ip \in Ips : RemainingCall(ip)
  \/ \E ip \in Ips : ResetTimeCall(ip)
  \/ Cleanup
  \/ \E d \in Deltas : Tick(d)

SpecRL == InitRL /\ [][NextRL]_vars


\* ------------------------------------------------------------------------
\* Router operations
\* ------------------------------------------------------------------------
HandlerIds == <<"h1", "h2", "h3", "h4", "h5">>
TA == <<"/", "a">>
TP == <<"/", ":", "p">>
TAW == <<"/", "a", "/", "*">>
Templates == {TP, TA, TAW}
RequestPaths == {<<"/", "a">>, <<"/", "b">>, <<"/", "a", "/">>, <<"/", "a", "/", "b">>}
RegMethods == {"GET", "POST"}
RequestMethods == {"GET", "POST", "OPTIONS"}
MwLists == {<<>>}
RegMwLists == {<<"m1">>}
GlobalIds == {"g1"}

\* router.use(middleware)
Use(m) ==
  /\ Len(globalMiddlewares) < MaxGlobal
  /\ globalMiddlewares' = Append(globalMiddlewares, m)
  /\ lastMatch' = NoMatchCall
  /\ UNCHANGED <<routes, pathPatterns, nregs>>
  /\ UNCHANGED otherThanRouter

\* router.get / post / put / delete / patch / options (path, ...mws, handler):
\* the handler of the n-th registration call is identified by n.
Register(method, path, mws) ==
  /\ nregs < MaxRegs
  /\ routes' = RegisterRoutes(routes, method, path, HandlerIds[nregs + 1], mws)
  /\ pathPatterns' = RegisterPatterns(pathPatterns, path)
  /\ nregs' = nregs + 1
  /\ lastMatch' = NoMatchCall
  /\ UNCHANGED globalMiddlewares
  /\ UNCHANGED otherThanRouter

\* router.any(path, ...mws, handler)
AnyCall(path, mws) ==
  /\ nregs < MaxRegs
  /\ routes' = AnyRoutes(routes, 1, path, HandlerIds[nregs + 1], mws)
  /\ pathPatterns' = RegisterPatterns(pathPatterns, path)
  /\ nregs' = nregs + 1
  /\ lastMatch' = NoMatchCall
  /\ UNCHANGED globalMiddlewares
  /\ UNCHANGED otherThanRouter

\* router.match(method, path)
MatchCall(method, path) ==
  /\ LET m == Match(routes, pathPatterns, method, path)
     IN lastMatch' = [method |-> method, path |-> path,
                      idx |-> m.idx, params |-> m.params]
  /\ UNCHANGED <<routes, globalMiddlewares, pathPatterns, nregs>>
  /\ UNCHANGED otherThanRouter

InitRouter ==
  /\ RLConstructed(DefaultRequestsPerMinute, RateLimitWindowSeconds)
  /\ RouterConstructed
  /\ config = Config(FALSE, FALSE, 0)
  /\ PipeIdle
  /\ config = Config(FALSE, FALSE, 0)
  /\ PipeIdle

NextRouter ==
  \/ \E m \in GlobalIds : Use(m)
  \/ \E method \in RegMethods, path \in Templates, mws \in RegMwLists :
       Register(method, path, mws)
  \/ \E path \in Templates, mws \in MwLists :
       AnyCall(path, mws)
  \/ \E method \in RequestMethods, path \in RequestPaths : MatchCall(method, path)

SpecRouter == InitRouter /\ [][NextRouter]_vars

\* Registration calls whose caller goes on after a call has thrown: besides
\* the templates above, one whose regular expression does not compile
\* (new RegExp throws at the end of register, after routes.push).
TBad == <<"/", "a", "(">>
RegisterTemplates == {TP, TA, TBad}

NextRegister ==
  \/ \E m \in GlobalIds : Use(m)
  \/ \E method \in RegMethods, path \in RegisterTemplates, mws \in RegMwLists :
       Register(method, path, mws)
  \/ \E path \in RegisterTemplates, mws \in MwLists :
       AnyCall(path, mws)
  \/ \E method \in RequestMethods, path \in RequestPaths : MatchCall(method, path)

SpecRegister == InitRouter /\ [][NextRegister]_vars

\* ------------------------------------------------------------------------
\* MikroServe: the request pipeline
\* ------------------------------------------------------------------------
FaultMessages == {"boom", "secret"}
ClientIps == {"", "ip1"}
\* The chunk sizes a client's body arrives in
Payloads == {<<>>, <<1>>, <<MAX_BODY_SIZE>>, <<MAX_BODY_SIZE, 1>>, <<MAX_BODY_SIZE + 1>>}

RECURSIVE SumSeq(_)
SumSeq(s) == IF s = <<>> THEN 0 ELSE s[1] + SumSeq(Tail(s))

\* A variant of IsPreflight that never takes the preflight branch.
IsPreflightNever(method) == FALSE

\* if (req.method === 'OPTIONS')
IsPreflight(method) == method = "OPTIONS"

\* requestHandler up to its first await: CORS and security headers, the
\* preflight branch, and parseBody attaching its listeners to the stream.
ReceiveBody(r, method, path, ip, payload, origin, contentType, texts) ==
  /\ req[r].pc \in {"idle", "done"}
  /\ served < MaxServed
  /\ served' = served + 1
  /\ LET hdrs == SetSecurityHeaders(
                   SetCorsHeaders({}, origin, config.allowedDomains),
                   config.useHttps, config.useHttp2)
         rq == [IdleReq EXCEPT !.method = method, !.path = path, !.ip = ip,
                               !.payload = payload, !.origin = origin,
                               !.contentType = contentType, !.texts = texts]
         rs == [FreshRes EXCEPT !.headers = hdrs]
     IN IF IsPreflight(method)
          THEN /\ req' = [req EXCEPT ![r] = [rq EXCEPT !.pc = "done"]]
               /\ res' = [res EXCEPT ![r] = EndPreflight(rs)]
          ELSE /\ req' = [req EXCEPT ![r] = [rq EXCEPT !.pc = "body", !.stream = "open"]]
               /\ res' = [res EXCEPT ![r] = rs]
  /\ UNCHANGED <<heap, server, config, rlVars, routerVars>>

\* A request without a content-type header, whose chunks each hold one
\* lexeme of text
ReceiveFrom(r, method, path, ip, payload, origin) ==
  ReceiveBody(r, method, path, ip, payload, origin, <<>>,
              [i \in 1..Len(payload) |-> <<"x">>])

\* A request without an Origin header
Receive(r, method, path, ip, payload) == ReceiveFrom(r, method, path, ip, payload, "")

\* A variant of DataChunk that fails only at the stream's end.
DataChunkNoEarlyReject(rq, n) ==
  [rq EXCEPT !.nread = @ + 1,
             !.bodySize = @ + n,
             !.nchunks = IF rq.rejected THEN @ ELSE @ + 1,
             !.bodyChunks = IF rq.rejected THEN @
                            ELSE Append(@, rq.texts[rq.nread + 1])]

\* req.on('data', chunk) with chunk.length = n
DataChunk(rq, n) ==
  LET size == rq.bodySize + n
  IN IF size > MAX_BODY_SIZE /\ ~rq.rejected
       THEN [rq EXCEPT !.nread = @ + 1,
                       !.bodySize = size,
                       !.rejected = TRUE,
                       !.settle = IF @ = "pending" THEN "rejected" ELSE @,
                       !.bodyMsg = IF rq.settle = "pending"
                                     THEN "Request body too large" ELSE @]
       ELSE [rq EXCEPT !.nread = @ + 1,
                       !.bodySize = size,
                       !.nchunks = IF rq.rejected THEN @ ELSE @ + 1,
                       !.bodyChunks = IF rq.rejected THEN @
                                      ELSE Append(@, rq.texts[rq.nread + 1])]

\* The stream delivers the next chunk of the payload.
Data(r) ==
  /\ req[r].stream = "open"
  /\ req[r].nread < Len(req[r].payload)
  /\ req' = [req EXCEPT ![r] = DataChunk(@, req[r].payload[req[r].nread + 1])]
  /\ UNCHANGED <<heap, server, config, res, served, rlVars, routerVars>>

\* req.on('end'): nothing after a size rejection; otherwise the body
\* promise is settled with the outcome of ParseBody.
End(r) ==
  /\ req[r].stream = "open"
  /\ req[r].nread = Len(req[r].payload)
  /\ LET out == ParseBody(req[r].contentType, req[r].bodyChunks)
         pending == req[r].settle = "pending"
     IN req' = [req EXCEPT ![r] =
          IF @.rejected THEN [@ EXCEPT !.stream = "ended"]
          ELSE [@ EXCEPT !.stream = "ended",
                         !.settle = IF ~pending THEN @
                                    ELSE IF out.ok THEN "resolved" ELSE "rejected",
                         !.bodyMsg = IF pending /\ ~out.ok THEN out.msg ELSE @,
                         !.body = IF pending /\ out.ok THEN out.value ELSE @]]
  /\ UNCHANGED <<heap, server, config, res, served, rlVars, routerVars>>

\* req.on('error')
StreamError(r) ==
  /\ req[r].stream = "open"
  /\ req' = [req EXCEPT ![r] =
       IF @.rejected THEN [@ EXCEPT !.stream = "errored"]
       ELSE [@ EXCEPT !.stream = "errored",
                      !.settle = IF @ = "pending" THEN "rejected" ELSE @,
                      !.bodyMsg = IF req[r].settle = "pending"
                                    THEN "Error reading request body" ELSE @]]
  /\ UNCHANGED <<heap, server, config, res, served, rlVars, routerVars>>

\* The catch block around await this.parseBody(req)
BodyFailed(r) ==
  /\ req[r].pc = "body"
  /\ req[r].settle = "rejected"
  /\ res' = [res EXCEPT ![r] = Respond(@, BadRequest(req[r].bodyMsg), "400")]
  /\ req' = [req EXCEPT ![r].pc = "done"]
  /\ UNCHANGED <<heap, server, config, served, rlVars, routerVars>>

\* A variant of HandleStart that runs the route's middlewares before the
\* global ones.
HandleStartRouteFirst(rq) ==
  LET m == Match(routes, pathPatterns, IF rq.method = "" THEN "GET" ELSE rq.method, rq.path)
  IN IF m.idx = 0
       THEN [rq EXCEPT !.pc = "settled", !.val = NullVal]
       ELSE [rq EXCEPT !.pc = "chain",
                       !.route = m.idx,
                       !.mws = routes[m.idx].middlewares \o globalMiddlewares,
                       !.handler = routes[m.idx].handler,
                       !.idx = 0]

\* A variant of HandleStart that runs the global middlewares also when no
\* route matches.
HandleStartGlobalsAnyway(rq) ==
  LET m == Match(routes, pathPatterns, IF rq.method = "" THEN "GET" ELSE rq.method, rq.path)
  IN IF m.idx = 0
       THEN [rq EXCEPT !.pc = "chain", !.mws = globalMiddlewares, !.idx = 0]
       ELSE [rq EXCEPT !.pc = "chain",
                       !.route = m.idx,
                       !.mws = globalMiddlewares \o routes[m.idx].middlewares,
                       !.handler = routes[m.idx].handler,
                       !.idx = 0]

\* Router.handle(req, res) up to the first call of next(): null when no
\* route matches, otherwise the chain of [...globalMiddlewares,
\* ...route.middlewares] around route.handler with currentIndex = 0.
HandleStart(rq) ==
  LET m == Match(routes, pathPatterns, IF rq.method = "" THEN "GET" ELSE rq.method, rq.path)
  IN IF m.idx = 0
       THEN [rq EXCEPT !.pc = "settled", !.val = NullVal]
       ELSE [rq EXCEPT !.pc = "chain",
                       !.route = m.idx,
                       !.mws = globalMiddlewares \o routes[m.idx].middlewares,
                       !.handler = routes[m.idx].handler,
                       !.idx = 0]

\* requestHandler after the body has been parsed: await this.router.handle
\* The objects of the context handle builds for a matched request: params
\* as match made it, query from url.searchParams, state {}
HeapAfterHandle(h, r, rq) ==
  LET m == Match(routes, pathPatterns, IF rq.method = "" THEN "GET" ELSE rq.method, rq.path)
      c == ContextOf(r)
  IN IF m.idx = 0 THEN h
     ELSE [h EXCEPT ![c.params] = m.params,
                    ![c.query] = FormData(URLSearchParams(rq.search), NoParams),
                    ![c.state] = NoParams]

\* handle(req, res) for the request in slot r
Handle(r, rq) ==
  LET started == HandleStart(rq)
  IN IF started.route = 0 THEN started
     ELSE [started EXCEPT !.context = ContextOf(r),
                          !.contextBody = BodyOrEmptyObject(rq.body)]

Dispatch(r) ==
  /\ req[r].pc = "body"
  /\ req[r].settle = "resolved"
  /\ req' = [req EXCEPT ![r] = Handle(r, @)]
  /\ heap' = HeapAfterHandle(heap, r, req[r])
  /\ UNCHANGED <<server, config, res, served, rlVars, routerVars>>

\* The pending call of next() for request r finds a middleware to invoke
NextIsMiddleware(r) == req[r].pc = "chain" /\ req[r].idx < Len(req[r].mws)
NextIsHandler(r) == req[r].pc = "chain" /\ req[r].idx >= Len(req[r].mws)

\* A variant of Advance that skips the middleware after the one it invokes.
AdvanceSkipping(rq) ==
  [rq EXCEPT !.idx = @ + 2, !.trace = Append(@, rq.mws[rq.idx + 1])]

\* next(): const middleware = middlewares[currentIndex++]
Advance(rq) ==
  [rq EXCEPT !.idx = @ + 1, !.trace = Append(@, rq.mws[rq.idx + 1])]

\* A variant of ShortCircuit in which next() goes on to the rest of the
\* chain although the middleware returned without calling it.
ShortCircuitContinues(rq, resp) == [rq EXCEPT !.short = rq.mws[rq.idx]]

\* A middleware returns resp without having called next(): the pending call
\* of next() that invoked it returns resp.
ShortCircuit(rq, resp) ==
  [rq EXCEPT !.pc = "unwind", !.val = OkVal(resp), !.short = rq.mws[rq.idx]]

\* A middleware or the handler throws, or returns a rejected promise: the
\* pending call of next() that invoked it is rejected with the fault.
Raise(rq, msg) == [rq EXCEPT !.pc = "unwind", !.val = FaultVal(msg), !.raised = msg]

\* A middleware calls next() and will return with the given mode.
CallNext(rq, mode) ==
  [rq EXCEPT !.stack = Append(@, [mw |-> rq.mws[rq.idx], mode |-> mode]),
             !.wrapped = @ \/ mode = "wrap"]

\* A variant of SetRateLimitHeaders that leaves out X-RateLimit-Reset.
SetRateLimitHeadersNoReset(h, ip) ==
  SetHeader(SetHeader(h, "X-RateLimit-Limit", limit),
            "X-RateLimit-Remaining", GetRemainingRequests(requests, ip, now))

\* A variant of SetRateLimitHeaders that reads the limiter after isAllowed
\* has counted the request.
SetRateLimitHeadersAfterCounting(h, ip) ==
  LET counted == IsAllowedMap(requests, ip, now)
      h1 == SetHeader(h, "X-RateLimit-Limit", limit)
      h2 == SetHeader(h1, "X-RateLimit-Remaining", GetRemainingRequests(counted, ip, now))
  IN SetHeader(h2, "X-RateLimit-Reset", GetResetTime(counted, ip, now))

\* rateLimitMiddleware: the three context.res.setHeader calls, made before
\* isAllowed counts the request
SetRateLimitHeaders(h, ip) ==
  LET h1 == SetHeader(h, "X-RateLimit-Limit", limit)
      h2 == SetHeader(h1, "X-RateLimit-Remaining", GetRemainingRequests(requests, ip, now))
  IN SetHeader(h2, "X-RateLimit-Reset", GetResetTime(requests, ip, now))

\* rateLimitMiddleware(context, next)
InvokeRateLimit(r) ==
  /\ NextIsMiddleware(r)
  /\ req[r].mws[req[r].idx + 1] = RateLimitMw
  /\ LET ip == IF req[r].ip = "" THEN "unknown" ELSE req[r].ip
         h3 == SetRateLimitHeaders(res[r].headers, ip)
         allowed == IsAllowedResult(requests, ip, now)
     IN /\ res' = [res EXCEPT ![r].headers = h3]
        /\ requests' = IsAllowedMap(requests, ip, now)
        /\ lastCall' = [op |-> "isAllowed", ip |-> ip, at |-> now,
                        allowed |-> allowed, value |-> refStart[Key(ip)]]
        /\ RefUpdate(ip, now, allowed)
        /\ TwinIsAllowed(ip)
        /\ ncalls' = ncalls + 1
        /\ req' = [req EXCEPT ![r] =
             IF allowed
               THEN CallNext(Advance(@), "pass")
               ELSE ShortCircuit(Advance(@), TooManyRequests)]
  /\ UNCHANGED <<limit, windowMs, now, nextSweep, nticks>>
  /\ UNCHANGED <<heap, server, config, served, routerVars>>

\* A user middleware is invoked and calls next(): with mode "pass" it
\* returns what next() produces, with mode "wrap" it awaits next() and
\* returns a response of its own in place of the one it got.
MwNext(r, mode) ==
  /\ NextIsMiddleware(r)
  /\ req[r].mws[req[r].idx + 1] # RateLimitMw
  /\ req' = [req EXCEPT ![r] = CallNext(Advance(@), mode)]
  /\ UNCHANGED <<heap, server, config, res, served, rlVars, routerVars>>

\* A variant of MwNextAgain in which every middleware's next() starts at
\* the middleware after its own.
MwNextAgainRewinding(r) ==
  /\ req[r].pc = "unwind"
  /\ req[r].stack # <<>>
  /\ req[r].again < MaxAgain
  /\ req' = [req EXCEPT ![r] = [@ EXCEPT !.pc = "chain", !.val = NoVal, !.again = @ + 1,
                                          !.idx = Len(req[r].stack)]]
  /\ UNCHANGED <<heap, server, config, res, served, rlVars, routerVars>>

\* The middleware whose call of next() has just settled calls next() once
\* more in place of returning: the shared currentIndex is where the
\* earlier calls left it.
MwNextAgain(r) ==
  /\ req[r].pc = "unwind"
  /\ req[r].stack # <<>>
  /\ req[r].again < MaxAgain
  /\ req' = [req EXCEPT ![r] = [@ EXCEPT !.pc = "chain", !.val = NoVal, !.again = @ + 1]]
  /\ UNCHANGED <<heap, server, config, res, served, rlVars, routerVars>>

\* The response user code with identity id returns
UserResponse(id) == Response(200, UserBody(id), JsonHeaders)

\* A user middleware is invoked and returns a response without calling next()
MwRespond(r) ==
  /\ NextIsMiddleware(r)
  /\ req[r].mws[req[r].idx + 1] # RateLimitMw
  /\ req' = [req EXCEPT ![r] =
       ShortCircuit(Advance(@), UserResponse(req[r].mws[req[r].idx + 1]))]
  /\ UNCHANGED <<heap, server, config, res, served, rlVars, routerVars>>

\* A user middleware is invoked and throws, or returns a rejected promise
MwThrow(r, msg) ==
  /\ NextIsMiddleware(r)
  /\ req[r].mws[req[r].idx + 1] # RateLimitMw
  /\ req' = [req EXCEPT ![r] = Raise(Advance(@), msg)]
  /\ UNCHANGED <<heap, server, config, res, served, rlVars, routerVars>>

\* next() past the last middleware: return finalHandler(context)
CallHandler(rq) == [rq EXCEPT !.trace = Append(@, rq.handler)]

\* The terminal handler is invoked and returns a response
\* The route's handler runs and returns the HandlerResponse resp.
HandlerReturns(r, resp) ==
  /\ NextIsHandler(r)
  /\ req' = [req EXCEPT ![r] =
       [CallHandler(@) EXCEPT !.pc = "unwind", !.val = OkVal(resp)]]
  /\ UNCHANGED <<heap, server, config, res, served, rlVars, routerVars>>

\* The route's handler returns what the helper call gives.
HandlerCalls(r, call) ==
  /\ NextIsHandler(r)
  /\ req' = [req EXCEPT ![r] =
       [CallHandler(@) EXCEPT !.pc = "unwind", !.val = OkVal(HelperResult(call)),
                              !.call = call]]
  /\ UNCHANGED <<heap, server, config, res, served, rlVars, routerVars>>

\* The route's handler returns without a value.
HandlerReturnsNothing(r) ==
  /\ NextIsHandler(r)
  /\ req' = [req EXCEPT ![r] =
       [CallHandler(@) EXCEPT !.pc = "unwind", !.val = UndefinedVal]]
  /\ UNCHANGED <<heap, server, config, res, served, rlVars, routerVars>>

\* The route's handler writes to c.raw() itself, head and body, and returns
\* a result marked _handled.
HandlerHandles(r) ==
  /\ NextIsHandler(r)
  /\ req' = [req EXCEPT ![r] =
       [CallHandler(@) EXCEPT !.pc = "unwind", !.val = HandledVal]]
  /\ res' = [res EXCEPT ![r] =
       [@ EXCEPT !.statusCode = 200, !.body = StringBody(req[r].handler),
                 !.wire = @ \o <<WroteHead, EndWith(req[r].handler)>>,
                 !.ended = TRUE, !.writes = @ + 1, !.via = "handler"]]
  /\ UNCHANGED <<heap, server, config, served, rlVars, routerVars>>

\* The route's handler returns c.json of an object of its own.
HandlerReturn(r) == HandlerReturns(r, UserResponse(req[r].handler))

\* The terminal handler is invoked and throws, or returns a rejected promise
HandlerThrow(r, msg) ==
  /\ NextIsHandler(r)
  /\ req' = [req EXCEPT ![r] = Raise(CallHandler(@), msg)]
  /\ UNCHANGED <<heap, server, config, res, served, rlVars, routerVars>>

\* A variant of ReturnThrough in which a frame swallows the fault it gets.
ReturnThroughCatching(f, val) ==
  IF val.kind = "fault" THEN OkVal(UserResponse(f.mw))
  ELSE IF f.mode = "wrap" /\ val.kind = "ok"
    THEN OkVal([val.resp EXCEPT !.body = UserBody(f.mw)])
    ELSE val

\* What the middleware of frame f returns, given what its call of next()
\* produced: a fault passes through every frame; a "wrap" frame replaces a
\* response by its own.
ReturnThrough(f, val) ==
  IF f.mode = "wrap" /\ val.kind = "ok"
    THEN OkVal([val.resp EXCEPT !.body = UserBody(f.mw)])
    ELSE val

\* The innermost pending call of next() settles: the middleware that made
\* it returns in turn; with no middleware left, handle's promise settles.
Unwind(r) ==
  /\ req[r].pc = "unwind"
  /\ req' = [req EXCEPT ![r] =
       IF @.stack = <<>>
         THEN [@ EXCEPT !.pc = "settled"]
         ELSE [@ EXCEPT !.stack = SubSeq(@, 1, Len(@) - 1),
                        !.val = ReturnThrough(req[r].stack[Len(req[r].stack)], @)]]
  /\ UNCHANGED <<heap, server, config, res, served, rlVars, routerVars>>

\* requestHandler after await this.router.handle(req, res): the result is
\* written, null becomes the 404, and the catch block writes the 500.
Finish(r) ==
  /\ req[r].pc = "settled"
  /\ LET v == req[r].val
     IN res' = [res EXCEPT ![r] =
          CASE v.kind = "fault" ->
                 RespondOrThrow(@, InternalServerError(config.debug, v.msg), "500",
                                config.useHttp2)
            [] v.kind \in {"null", "undefined"} ->
                 RespondCaught(@, NotFound, "404", config.debug, config.useHttp2)
            [] v.kind = "handled" -> @
            [] OTHER -> RespondCaught(@, v.resp, "result", config.debug, config.useHttp2)]
  /\ req' = [req EXCEPT ![r].pc = "done"]
  /\ UNCHANGED <<heap, server, config, served, rlVars, routerVars>>

\* router.handle(req, res) called directly on a Router
\* router.handle(req, res) called with the url path + "?" + search
HandleUrl(r, method, path, search) ==
  /\ req[r].pc \in {"idle", "settled"}
  /\ served < MaxServed
  /\ served' = served + 1
  /\ LET rq == [IdleReq EXCEPT !.method = method, !.path = path, !.search = search]
     IN /\ req' = [req EXCEPT ![r] = Handle(r, rq)]
        /\ heap' = HeapAfterHandle(heap, r, rq)
  /\ UNCHANGED <<server, config, res, rlVars, routerVars>>

\* router.handle(req, res) called with a url without a query string
HandleCall(r, method, path) == HandleUrl(r, method, path, <<>>)

\* The middleware about to run for request r sets context[field][key] =
\* value.
MwWrite(r, field, key, value) ==
  /\ NextIsMiddleware(r)
  /\ heap' = [heap EXCEPT ![req[r].context[field]] = MapSet(@, key, value)]
  /\ req' = [req EXCEPT ![r].own[field] = MapSet(@, key, value)]
  /\ UNCHANGED <<server, config, res, served, rlVars, routerVars>>

\* ------------------------------------------------------------------------
\* Specifications of the pipeline and of Router.handle
\* ------------------------------------------------------------------------
PipePaths == {<<"/", "a">>, <<"/", "a", "/", "b">>}
PipeRpms == {0, 1}
Serial == {1}

\* A variant of AppSetUp in which the rate-limit middleware is registered
\* after the application's own global middleware.
AppSetUpLimiterLast(cfg) ==
  /\ config = cfg
  /\ RLConstructed(RequestsPerMinuteOf(cfg), RateLimitWindowSeconds)
  /\ globalMiddlewares = <<"g1">> \o (IF cfg.rateLimit.enabled THEN <<RateLimitMw>> ELSE <<>>)
  /\ routes = AnyRoutes(RegisterRoutes(<<>>, "GET", TP, "h1", <<"m1">>), 1, TA, "h2", <<>>)
  /\ pathPatterns = RegisterPatterns(RegisterPatterns(NoPatterns, TP), TA)
  /\ nregs = 2
  /\ lastMatch = NoMatchCall

\* The application's set-up: app.use("g1"); app.get("/:p", "m1", "h1");
\* app.any("/a", "h2") on a server constructed with cfg.
AppSetUp(cfg) ==
  /\ config = cfg
  /\ RLConstructed(RequestsPerMinuteOf(cfg), RateLimitWindowSeconds)
  /\ globalMiddlewares = (IF cfg.rateLimit.enabled THEN <<RateLimitMw>> ELSE <<>>) \o <<"g1">>
  /\ routes = AnyRoutes(RegisterRoutes(<<>>, "GET", TP, "h1", <<"m1">>), 1, TA, "h2", <<>>)
  /\ pathPatterns = RegisterPatterns(RegisterPatterns(NoPatterns, TP), TA)
  /\ nregs = 2
  /\ lastMatch = NoMatchCall

Init ==
  /\ \E debug \in BOOLEAN, enabled \in BOOLEAN, rpm \in PipeRpms :
       AppSetUp(Config(debug, enabled, rpm))
  /\ PipeIdle

Next ==
  \/ \E r \in Serial, method \in RequestMethods, path \in PipePaths,
        ip \in ClientIps, payload \in Payloads :
       Receive(r, method, path, ip, payload)
  \/ \E r \in Serial : Data(r)
  \/ \E r \in Serial : End(r)
  \/ \E r \in Serial : StreamError(r)
  \/ \E r \in Serial : BodyFailed(r)
  \/ \E r \in Serial : Dispatch(r)
  \/ \E r \in Serial : InvokeRateLimit(r)
  \/ \E r \in Serial, mode \in {"pass", "wrap"} : MwNext(r, mode)
  \/ \E r \in Serial : MwRespond(r)
  \/ \E r \in Serial, msg \in FaultMessages : MwThrow(r, msg)
  \/ \E r \in Serial : HandlerReturn(r)
  \/ \E r \in Serial, msg \in FaultMessages : HandlerThrow(r, msg)
  \/ \E r \in Serial : Unwind(r)
  \/ \E r \in Serial : Finish(r)

Spec == Init /\ [][Next]_vars

\* Requests of one client in flight at once on a server with rate
\* limiting enabled, while the clock advances and the limiter's timer fires.
ConcPayloads == {<<1>>}
ConcIps == {"ip1"}

InitConc ==
  /\ \E rpm \in 1..MaxLimit : AppSetUp(Config(FALSE, TRUE, rpm))
  /\ PipeIdle

NextConc ==
  \/ \E r \in Reqs, ip \in ConcIps, payload \in ConcPayloads :
       Receive(r, "POST", TA, ip, payload)
  \/ \E r \in Reqs : Data(r)
  \/ \E r \in Reqs : End(r)
  \/ \E r \in Reqs : Dispatch(r)
  \/ \E r \in Reqs : InvokeRateLimit(r)
  \/ \E r \in Reqs : MwNext(r, "pass")
  \/ \E r \in Reqs : HandlerReturn(r)
  \/ \E r \in Reqs : Unwind(r)
  \/ \E r \in Reqs : Finish(r)
  \/ \E d \in {windowMs + 1} : nticks < MaxConcTicks /\ Tick(d)
  \/ Cleanup

SpecConc == InitConc /\ [][NextConc]_vars

\* Servers of every transport and allowed-origin configuration, rate
\* limiting enabled with a quota of one, receiving requests with and
\* without an Origin header; every kind of response is written.
DomainLists == {{}, {"*"}, {"o1"}, {"o1", "*"}}
Origins == {"", "o1", "o2"}
HeaderMethods == {"GET", "OPTIONS"}
HeaderPayloads == {<<1>>, <<MAX_BODY_SIZE + 1>>}

InitHeaders ==
  /\ \E useHttps \in BOOLEAN, useHttp2 \in BOOLEAN, domains \in DomainLists :
       AppSetUp(ServerConfig(FALSE, TRUE, 1, useHttps, useHttp2, domains))
  /\ PipeIdle

NextHeaders ==
  \/ \E r \in Serial, method \in HeaderMethods, path \in PipePaths,
        payload \in HeaderPayloads, origin \in Origins :
       ReceiveFrom(r, method, path, "ip1", payload, origin)
  \/ \E r \in Serial : Data(r)
  \/ \E r \in Serial : End(r)
  \/ \E r \in Serial : BodyFailed(r)
  \/ \E r \in Serial : Dispatch(r)
  \/ \E r \in Serial : InvokeRateLimit(r)
  \/ \E r \in Serial : MwNext(r, "pass")
  \/ \E r \in Serial : HandlerReturn(r)
  \/ \E r \in Serial : HandlerThrow(r, "boom")
  \/ \E r \in Serial : Unwind(r)
  \/ \E r \in Serial : Finish(r)

SpecHeaders == InitHeaders /\ [][NextHeaders]_vars

\* One template registered, router.get(t, "h1"), and match called with
\* any path of up to MaxPathLen characters over "/", "a" and "b".
MatchTemplates ==
  {<<"/", ":", "p">>,
   <<"/", ":", "p", "/", ":", "q">>,
   <<"/", "a", "/", ":", "p", "q">>,
   <<"/", ":", "p", "/", "b">>,
   <<"/", ":", "p", "/">>,
   <<"/", "a">>,
   <<"/", "a", "/", "b">>,
   <<"/", "a", "/">>,
   <<"/", "a", "/", "*">>,
   <<"/", ":", "p", "/", "*">>,
   <<"/", "*">>}

PathChars == {"/", "a", "b"}

RECURSIVE PathsOfLen(_)
PathsOfLen(n) ==
  IF n = 1 THEN {<<"/">>}
  ELSE {Append(p, c) : p \in PathsOfLen(n - 1), c \in PathChars}

MatchPaths == UNION {PathsOfLen(n) : n \in 1..MaxPathLen}

InitMatch ==
  /\ config = Config(FALSE, FALSE, 0)
  /\ RLConstructed(DefaultRequestsPerMinute, RateLimitWindowSeconds)
  /\ globalMiddlewares = <<>>
  /\ \E t \in MatchTemplates :
       /\ routes = RegisterRoutes(<<>>, "GET", t, "h1", <<>>)
       /\ pathPatterns = RegisterPatterns(NoPatterns, t)
  /\ nregs = 1
  /\ lastMatch = NoMatchCall
  /\ PipeIdle

\* match changes nothing of the router: one call in a behaviour shows all
\* that any number of calls can.
NextMatch ==
  \E path \in MatchPaths : lastMatch = NoMatchCall /\ MatchCall("GET", path)

SpecMatch == InitMatch /\ [][NextMatch]_vars

\* One template of literal segments only, some with characters that are
\* special in the source of a regular expression, registered with
\* router.get(t, "h1"), and match called with any path of up to MaxPathLen
\* characters over "/", "a", "b" and ".".
LiteralTemplates ==
  {<<"/", "a">>,
   <<"/", "a", "/">>,
   <<"/", "a", "/", "b">>,
   <<"/", "a", ".", "b">>,
   <<"/", "a", "b", "?">>,
   <<"/", "a", "+">>,
   <<"/", "a", "(">>,
   <<"/", "a", ".", "/", "b">>}

LiteralChars == {"/", "a", "b", "."}

RECURSIVE LiteralPathsOfLen(_)
LiteralPathsOfLen(n) ==
  IF n = 1 THEN {<<"/">>}
  ELSE {Append(p, c) : p \in LiteralPathsOfLen(n - 1), c \in LiteralChars}

LiteralPaths == UNION {LiteralPathsOfLen(n) : n \in 1..MaxPathLen}

InitLiteral ==
  /\ config = Config(FALSE, FALSE, 0)
  /\ RLConstructed(DefaultRequestsPerMinute, RateLimitWindowSeconds)
  /\ globalMiddlewares = <<>>
  /\ \E t \in LiteralTemplates :
       /\ routes = RegisterRoutes(<<>>, "GET", t, "h1", <<>>)
       /\ pathPatterns = RegisterPatterns(NoPatterns, t)
  /\ nregs = 1
  /\ lastMatch = NoMatchCall
  /\ PipeIdle

NextLiteral ==
  \E path \in LiteralPaths : lastMatch = NoMatchCall /\ MatchCall("GET", path)

SpecLiteral == InitLiteral /\ [][NextLiteral]_vars

\* ---------------------------------------------------------------------
\* Requests with bodies of several content types
\* ---------------------------------------------------------------------
ContentTypes ==
  {<<>>, <<"application/json">>, <<"application/json", "; charset=utf-8">>,
   <<"application/x-www-form-urlencoded">>, <<"text/plain">>}

\* Bodies as the chunks the stream delivers them in
BodyTexts ==
  {<<>>,
   <<<<"{", "}">>>>,
   <<<<"{", "\"a\"", ":", "1", ",">>, <<"\"a\"", ":", "0", "}">>>>,
   <<<<"[", "1">>, <<",", "0", "]">>>>,
   <<<<"0">>>>,
   <<<<"null">>>>,
   <<<<"false">>>>,
   <<<<"\"\"">>>>,
   <<<<"\"a\"">>>>,
   <<<<"{">>>>,
   <<<<"a", "=", "1", "&">>, <<"a", "=", "2">>>>,
   <<<<"a", "=", "1", "&", "&", "b", "&", "a", "=", "+">>>>,
   <<<<"?", "a", "=", "b", "=", "1">>>>}

ChunkSizes(texts) == [i \in 1..Len(texts) |-> Len(texts[i])]

InitBody ==
  /\ AppSetUp(ServerConfig(FALSE, FALSE, 1, FALSE, FALSE, {"*"}))
  /\ PipeIdle

NextBody ==
  \/ \E r \in Serial, contentType \in ContentTypes, texts \in BodyTexts :
       ReceiveBody(r, "GET", <<"/", "a">>, "ip1", ChunkSizes(texts), "",
                   contentType, texts)
  \/ \E r \in Serial : Data(r)
  \/ \E r \in Serial : End(r)
  \/ \E r \in Serial : StreamError(r)
  \/ \E r \in Serial : BodyFailed(r)
  \/ \E r \in Serial : Dispatch(r)
  \/ \E r \in Serial : MwNext(r, "pass")
  \/ \E r \in Serial : HandlerReturn(r)
  \/ \E r \in Serial : Unwind(r)
  \/ \E r \in Serial : Finish(r)

SpecBody == InitBody /\ [][NextBody]_vars

\* Bodies that stay under, reach or cross the ceiling at their first,
\* second or third chunk, some with chunks after the one that crosses it
AcquirePayloads ==
  {<<MAX_BODY_SIZE>>,
   <<MAX_BODY_SIZE - 1, 1>>,
   <<MAX_BODY_SIZE + 1>>,
   <<MAX_BODY_SIZE + 1, 1>>,
   <<MAX_BODY_SIZE, 1, 1>>,
   <<1, MAX_BODY_SIZE - 1, 1, 1>>}

InitAcquire ==
  /\ AppSetUp(Config(FALSE, FALSE, 0))
  /\ PipeIdle

NextAcquire ==
  \/ \E r \in Serial, payload \in AcquirePayloads :
       Receive(r, "POST", <<"/", "a">>, "ip1", payload)
  \/ \E r \in Serial : Data(r)
  \/ \E r \in Serial : End(r)
  \/ \E r \in Serial : StreamError(r)
  \/ \E r \in Serial : BodyFailed(r)
  \/ \E r \in Serial : Dispatch(r)
  \/ \E r \in Serial : MwNext(r, "pass")
  \/ \E r \in Serial : HandlerReturn(r)
  \/ \E r \in Serial : Unwind(r)
  \/ \E r \in Serial : Finish(r)

SpecAcquire == InitAcquire /\ [][NextAcquire]_vars

\* ---------------------------------------------------------------------
\* Handlers and middlewares with every outcome the pipeline tells apart
\* ---------------------------------------------------------------------
OutcomePaths == {<<"/", "a">>, <<"/", "b", "/", "b">>}

\* What the handlers return: c.json of an object, a string, nothing to
\* send, and an object that cannot be converted to JSON
OutcomeResponses ==
  {Response(200, UserBody("h"), JsonHeaders),
   Response(200, StringBody("hi"), {}),
   Response(204, NullBody, {}),
   Response(200, CyclicBody, JsonHeaders)}

InitOutcomes ==
  /\ \E debug \in BOOLEAN, enabled \in BOOLEAN, useHttp2 \in BOOLEAN :
       AppSetUp(ServerConfig(debug, enabled, 1, FALSE, useHttp2, {"*"}))
  /\ PipeIdle

NextOutcomes ==
  \/ \E r \in Serial, method \in {"GET", "POST", "OPTIONS"}, path \in OutcomePaths,
        payload \in {<<>>, <<1>>, <<MAX_BODY_SIZE + 1>>} :
       Receive(r, method, path, "ip1", payload)
  \/ \E r \in Serial : Data(r)
  \/ \E r \in Serial : End(r)
  \/ \E r \in Serial : StreamError(r)
  \/ \E r \in Serial : BodyFailed(r)
  \/ \E r \in Serial : Dispatch(r)
  \/ \E r \in Serial : InvokeRateLimit(r)
  \/ \E r \in Serial : MwNext(r, "pass")
  \/ \E r \in Serial : MwRespond(r)
  \/ \E r \in Serial : MwThrow(r, "boom")
  \/ \E r \in Serial, resp \in OutcomeResponses : HandlerReturns(r, resp)
  \/ \E r \in Serial : HandlerReturnsNothing(r)
  \/ \E r \in Serial : HandlerHandles(r)
  \/ \E r \in Serial : HandlerThrow(r, "boom")
  \/ \E r \in Serial : Unwind(r)
  \/ \E r \in Serial : Finish(r)

SpecOutcomes == InitOutcomes /\ [][NextOutcomes]_vars

\* The same server under the scheduling a request can count on: an open
\* stream goes on to deliver data, end or fail; a called middleware or
\* handler returns or throws; a settled promise resumes what awaits it.
\* Nothing obliges a client to send a request.
StreamStep(r) == Data(r) \/ End(r) \/ StreamError(r)

ChainStep(r) ==
  \/ InvokeRateLimit(r)
  \/ MwNext(r, "pass")
  \/ MwRespond(r)
  \/ MwThrow(r, "boom")
  \/ \E resp \in OutcomeResponses : HandlerReturns(r, resp)
  \/ HandlerReturnsNothing(r)
  \/ HandlerHandles(r)
  \/ HandlerThrow(r, "boom")

FairOutcomes ==
  \A r \in Serial :
    /\ WF_vars(StreamStep(r))
    /\ WF_vars(BodyFailed(r))
    /\ WF_vars(Dispatch(r))
    /\ WF_vars(ChainStep(r))
    /\ WF_vars(Unwind(r))
    /\ WF_vars(Finish(r))

SpecOutcomesFair == SpecOutcomes /\ FairOutcomes

\* ---------------------------------------------------------------------
\* Handlers that return bodies of every kind
\* ---------------------------------------------------------------------
OctetHeaders == {<<"Content-Type", "application/octet-stream">>}

HandlerBodies ==
  {NoBody, NullBody, StringBody("hi"), BufferBody("b1"), NumberBody("0"), UserBody("h1")}

\* isRaw marks a body of bytes already encoded: the raw responses carry a
\* Buffer or a string, or no body.
HandlerResponses ==
  {Response(200, b, {}) : b \in HandlerBodies}
    \cup {RawResponse(200, b, OctetHeaders) :
            b \in {NoBody, NullBody, StringBody("hi"), BufferBody("b1")}}

InitRespond ==
  /\ AppSetUp(ServerConfig(FALSE, TRUE, 1, FALSE, FALSE, {"*"}))
  /\ PipeIdle

NextRespond ==
  \/ \E r \in Serial, method \in HeaderMethods, path \in PipePaths,
        payload \in HeaderPayloads :
       Receive(r, method, path, "ip1", payload)
  \/ \E r \in Serial : Data(r)
  \/ \E r \in Serial : End(r)
  \/ \E r \in Serial : BodyFailed(r)
  \/ \E r \in Serial : Dispatch(r)
  \/ \E r \in Serial : InvokeRateLimit(r)
  \/ \E r \in Serial : MwNext(r, "pass")
  \/ \E r \in Serial, resp \in HandlerResponses : HandlerReturns(r, resp)
  \/ \E r \in Serial : HandlerThrow(r, "boom")
  \/ \E r \in Serial : Unwind(r)
  \/ \E r \in Serial : Finish(r)

SpecRespond == InitRespond /\ [][NextRespond]_vars

\* ---------------------------------------------------------------------
\* Creating and starting the listener
\* ---------------------------------------------------------------------
SslPaths == {"", "key.pem", "cert.pem", "gone.pem"}
SslCaPaths == {"", "ca.pem", "gone.pem"}

\* app.createServer(): returns the listener or throws; matches tells
\* whether the key read is the certificate's.
CreateServer(matches) ==
  /\ server.kind = "none"
  /\ server' = CreateServerOutcome(config, matches)
  /\ UNCHANGED <<heap, config, req, res, served, rlVars, routerVars>>

\* app.start(): createServer(), then server.listen(port, host) when no
\* fault was thrown
Start(matches) ==
  /\ server.kind = "none"
  /\ LET made == CreateServerOutcome(config, matches)
     IN server' = IF made.kind = "fault" THEN made ELSE [made EXCEPT !.listening = TRUE]
  /\ UNCHANGED <<heap, config, req, res, served, rlVars, routerVars>>

InitServer ==
  /\ \E useHttps \in BOOLEAN, useHttp2 \in BOOLEAN, sslCert \in SslPaths,
        sslKey \in SslPaths, sslCa \in SslCaPaths :
       config = TlsConfig(useHttps, useHttp2, sslCert, sslKey, sslCa)
  /\ RLConstructed(DefaultRequestsPerMinute, RateLimitWindowSeconds)
  /\ RouterConstructed
  /\ PipeIdle

NextServer ==
  \/ \E matches \in BOOLEAN : CreateServer(matches)
  \/ \E matches \in BOOLEAN : Start(matches)

SpecServer == InitServer /\ [][NextServer]_vars

\* ---------------------------------------------------------------------
\* Handlers that answer through the context's helpers
\* ---------------------------------------------------------------------
StatusChains == {<<>>, <<201>>, <<404, 201>>, <<201, 404>>}

HelperCalls ==
  {HelperCall(codes, name, "b1", contentType, status) :
     codes \in StatusChains, name \in HelperNames,
     contentType \in {"", "image/png"}, status \in {None, 301}}

InitHelpers ==
  /\ AppSetUp(ServerConfig(FALSE, FALSE, 1, FALSE, FALSE, {"*"}))
  /\ PipeIdle

NextHelpers ==
  \/ \E r \in Serial : Receive(r, "GET", <<"/", "a">>, "ip1", <<>>)
  \/ \E r \in Serial : End(r)
  \/ \E r \in Serial : Dispatch(r)
  \/ \E r \in Serial : MwNext(r, "pass")
  \/ \E r \in Serial, call \in HelperCalls : HandlerCalls(r, call)
  \/ \E r \in Serial : Unwind(r)
  \/ \E r \in Serial : Finish(r)

SpecHelpers == InitHelpers /\ [][NextHelpers]_vars

\* A Router of its own: router.use("g1"); router.use("g2");
\* router.get("/:p", "m1", "m2", "h1"); router.any("/a", "m1", "h2").
RouterSetUp ==
  /\ config = Config(FALSE, FALSE, 0)
  /\ RLConstructed(DefaultRequestsPerMinute, RateLimitWindowSeconds)
  /\ globalMiddlewares = <<"g1", "g2">>
  /\ routes = AnyRoutes(RegisterRoutes(<<>>, "GET", TP, "h1", <<"m1", "m2">>),
                        1, TA, "h2", <<"m1">>)
  /\ pathPatterns = RegisterPatterns(RegisterPatterns(NoPatterns, TP), TA)
  /\ nregs = 2
  /\ lastMatch = NoMatchCall

InitChain == RouterSetUp /\ PipeIdle

NextChain ==
  \/ \E r \in Serial, method \in RequestMethods, path \in PipePaths : HandleCall(r, method, path)
  \/ \E r \in Serial, mode \in {"pass", "wrap"} : MwNext(r, mode)
  \/ \E r \in Serial : MwRespond(r)
  \/ \E r \in Serial, msg \in FaultMessages : MwThrow(r, msg)
  \/ \E r \in Serial : HandlerReturn(r)
  \/ \E r \in Serial, msg \in FaultMessages : HandlerThrow(r, msg)
  \/ \E r \in Serial : Unwind(r)

SpecChain == InitChain /\ [][NextChain]_vars

\* The same Router with middlewares that may call next() more than once
NextReentry ==
  \/ \E r \in Serial, path \in PipePaths : HandleCall(r, "GET", path)
  \/ \E r \in Serial : MwNext(r, "pass")
  \/ \E r \in Serial : MwNextAgain(r)
  \/ \E r \in Serial : MwRespond(r)
  \/ \E r \in Serial : MwThrow(r, "boom")
  \/ \E r \in Serial : HandlerReturn(r)
  \/ \E r \in Serial : HandlerThrow(r, "boom")
  \/ \E r \in Serial : Unwind(r)

SpecReentry == InitChain /\ [][NextReentry]_vars

\* ---------------------------------------------------------------------
\* A Router with one any() registration
\* ---------------------------------------------------------------------
AnyMwLists == {<<>>, <<"m1">>, <<"m1", "m2">>}
AnyGlobals == {<<>>, <<"g1">>}
AnyRequestMethods == {"GET", "POST", "PUT", "DELETE", "PATCH", "OPTIONS", "HEAD", "TRACE"}
AnyRequestPaths == {<<"/", "a">>, <<"/", "b">>}

\* new Router(), use(...globals), any('/a', ...mws, h1)
InitAny ==
  /\ \E mws \in AnyMwLists, globals \in AnyGlobals :
       /\ globalMiddlewares = globals
       /\ routes = AnyRoutes(<<>>, 1, TA, "h1", mws)
  /\ pathPatterns = RegisterPatterns(NoPatterns, TA)
  /\ nregs = 1
  /\ lastMatch = NoMatchCall
  /\ config = Config(FALSE, FALSE, 0)
  /\ RLConstructed(DefaultRequestsPerMinute, RateLimitWindowSeconds)
  /\ PipeIdle

NextAny ==
  \/ \E r \in Serial, method \in AnyRequestMethods, path \in AnyRequestPaths :
       HandleCall(r, method, path)
  \/ \E r \in Serial : MwNext(r, "pass")
  \/ \E r \in Serial : HandlerReturn(r)
  \/ \E r \in Serial : Unwind(r)

SpecAny == InitAny /\ [][NextAny]_vars

\* ---------------------------------------------------------------------
\* Requests in flight at once whose middlewares write to their contexts
\* ---------------------------------------------------------------------
InFlight == {1, 2}

\* The value the middleware of the request in slot r writes
MarkOf(r) == IF r = 1 THEN <<"v", "1">> ELSE <<"v", "2">>

\* The property each field is written at
WrittenKey(field) ==
  CASE field = "params" -> <<"p">>
    [] field = "query" -> <<"q">>
    [] OTHER -> <<"k">>

Searches == {<<>>, <<"q", "=", "0">>}

\* new Router(), get('/:p', m1, h1)
InitContexts ==
  /\ globalMiddlewares = <<>>
  /\ routes = RegisterRoutes(<<>>, "GET", TP, "h1", <<"m1">>)
  /\ pathPatterns = RegisterPatterns(NoPatterns, TP)
  /\ nregs = 1
  /\ lastMatch = NoMatchCall
  /\ config = Config(FALSE, FALSE, 0)
  /\ RLConstructed(DefaultRequestsPerMinute, RateLimitWindowSeconds)
  /\ PipeIdle

NextContexts ==
  \/ \E r \in InFlight, search \in Searches : HandleUrl(r, "GET", <<"/", "a">>, search)
  \/ \E r \in InFlight, field \in ContextFields :
       MwWrite(r, field, WrittenKey(field), MarkOf(r))
  \/ \E r \in InFlight : MwNext(r, "pass")
  \/ \E r \in InFlight : HandlerReturn(r)
  \/ \E r \in InFlight : Unwind(r)

SpecContexts == InitContexts /\ [][NextContexts]_vars

\* ------------------------------------------------------------------------
\* Claims about the RateLimiter
\* ------------------------------------------------------------------------

\* C1: within one window the n-th call to isAllowed(key) returns true if
\* and only if n <= limit.
C1_NthCallAdmittedIffWithinLimit ==
  lastCall.op = "isAllowed" =>
    (lastCall.allowed <=> refN[Key(lastCall.ip)] <= limit)

\* C1 witness: a call beyond the quota was made inside a window and refused.
C1_Witness ==
  /\ lastCall.op = "isAllowed"
  /\ limit >= 1
  /\ refN[Key(lastCall.ip)] = limit + 1
  /\ ~lastCall.allowed

\* C2 as stated: once windowMs has elapsed past the instant of the call that
\* opened the key's window, the next isAllowed returns true and
\* getRemainingRequests then returns limit - 1.
C2_Original ==
  (/\ lastCall.op = "isAllowed"
   /\ lastCall.at = now
   /\ lastCall.value # None
   /\ lastCall.at >= lastCall.value + windowMs)
  => (/\ lastCall.allowed
      /\ GetRemainingRequests(requests, lastCall.ip, now) = limit - 1)

\* C2 amended: for limit >= 1, once MORE than windowMs has elapsed past the
\* instant of the call that opened the key's window, the next isAllowed
\* returns true and getRemainingRequests then returns limit - 1.
C2_ResetAfterWindow ==
  (/\ lastCall.op = "isAllowed"
   /\ lastCall.at = now
   /\ limit >= 1
   /\ lastCall.value # None
   /\ lastCall.at > lastCall.value + windowMs)
  => (/\ lastCall.allowed
      /\ GetRemainingRequests(requests, lastCall.ip, now) = limit - 1)

\* C2 witness: a key that was exhausted is admitted again after its window.
C2_Witness ==
  /\ lastCall.op = "isAllowed"
  /\ lastCall.at = now
  /\ limit >= 1
  /\ lastCall.value # None
  /\ lastCall.at > lastCall.value + windowMs
  /\ lastCall.allowed
  /\ ncalls > limit + 1
  /\ GetRemainingRequests(requests, lastCall.ip, now) = limit - 1

\* ------------------------------------------------------------------------
\* Claims about the Router
\* ------------------------------------------------------------------------

\* The routes of the table whose method is the request's and whose template,
\* compiled afresh, matches the path.
Candidates(method, path) ==
  {i \in 1..Len(routes) :
     /\ routes[i].method = method
     /\ Exec(CreatePathPattern(routes[i].path), path).ok}

\* C4: match(method, path) returns the first route in registration order
\* whose method equals the request method and whose pattern matches the
\* path (null when there is none); a later-registered route that matches too
\* is not the one resolved, and a route of another method is never resolved.
C4_FirstRegisteredWins ==
  lastMatch.method # "" =>
    LET cands == Candidates(lastMatch.method, lastMatch.path)
    IN /\ cands = {} => lastMatch.idx = 0
       /\ cands # {} =>
            /\ lastMatch.idx \in cands
            /\ \A i \in cands : lastMatch.idx <= i
       /\ lastMatch.idx # 0 => routes[lastMatch.idx].method = lastMatch.method

\* C4 witness: /:p registered before /a under one method, both match /a,
\* and the earlier route is the one resolved.
C4_Witness ==
  /\ lastMatch.method # ""
  /\ lastMatch.idx = 1
  /\ Len(routes) >= 2
  /\ routes[1].path = TP
  /\ routes[2].path = TA
  /\ 2 \in Candidates(lastMatch.method, lastMatch.path)

\* ------------------------------------------------------------------------
\* Claims about the rate limiter behind concurrent requests
\* ------------------------------------------------------------------------

\* C3: with rate limiting enabled and requests of one client key in flight
\* at once, interleaved at every body-chunk read and every await of the
\* chain, at most `limit` of them are admitted past rateLimitMiddleware
\* within one window of the key; and every decision is taken on the count
\* its own increment produced: after a call of isAllowed the key's entry
\* holds a count that is within the limit exactly when the call was admitted.
C3_AtMostLimitAdmitted ==
  /\ \A k \in Keys : refAdmitted[k] <= limit
  /\ (lastCall.op = "isAllowed" /\ requests[Key(lastCall.ip)] # NoEntry) =>
       (lastCall.allowed <=> requests[Key(lastCall.ip)].count <= limit)

\* C3 witness: two requests of one client in flight in one window with
\* limit 1: the first is past the limiter and still pending in its chain
\* when the second, received before the first was admitted, is refused.
C3_Witness ==
  /\ limit = 1
  /\ nticks = 0
  /\ \E r1 \in Reqs, r2 \in Reqs :
       /\ r1 # r2
       /\ req[r1].ip = req[r2].ip
       /\ req[r1].pc = "chain"
       /\ req[r1].stack # <<>>
       /\ req[r1].stack[1].mw = RateLimitMw
       /\ req[r2].pc = "unwind"
       /\ req[r2].short = RateLimitMw
       /\ req[r2].val = OkVal(TooManyRequests)
       /\ refAdmitted[Key(IF req[r1].ip = "" THEN "unknown" ELSE req[r1].ip)] = 1

\* ------------------------------------------------------------------------
\* Claims about the middleware chain
\* ------------------------------------------------------------------------

IsPrefix(s, t) == Len(s) <= Len(t) /\ SubSeq(t, 1, Len(s)) = s

\* The order in which Router.handle is to invoke the code of request r's
\* route, read off the router's tables.
ExpectedOrder(r) ==
  globalMiddlewares \o routes[req[r].route].middlewares
    \o <<routes[req[r].route].handler>>

InTrace(r, id) == \E i \in 1..Len(req[r].trace) : req[r].trace[i] = id

\* C5: for every matched request the invocations so far are an initial part
\* of: the global middlewares in the order of use(), then the route's own
\* middlewares in the order they were passed, then the route's handler; and
\* when the handler has been invoked (every middleware called next) the
\* invocations are exactly that sequence.
C5_GlobalsThenRouteThenHandler ==
  \A r \in Reqs :
    req[r].route # 0 =>
      /\ IsPrefix(req[r].trace, ExpectedOrder(r))
      /\ InTrace(r, req[r].handler) => req[r].trace = ExpectedOrder(r)
      /\ (req[r].pc \in {"unwind", "settled"} /\ req[r].short = "" /\ req[r].raised = "")
           => req[r].trace = ExpectedOrder(r)

\* C5 witness: GET /a settles after g1, g2, m1, m2 and h1 ran in that order.
C5_Witness ==
  \E r \in Reqs :
    /\ req[r].pc = "settled"
    /\ req[r].route = 1
    /\ req[r].trace = <<"g1", "g2", "m1", "m2", "h1">>

\* The response a middleware returns when it does not call next()
ShortResponse(id) == IF id = RateLimitMw THEN TooManyRequests ELSE UserResponse(id)

\* C6: once a middleware has returned a response without calling next(), it
\* is the last code invoked for the request (no later middleware, no
\* handler), and when the middlewares before it return what next() gave
\* them, handle settles with exactly that response.
C6_ShortCircuitEndsTheChain ==
  \A r \in Reqs :
    req[r].short # "" =>
      LET n == Len(req[r].trace)
      IN /\ n >= 1
         /\ n <= Len(req[r].mws)
         /\ req[r].trace = SubSeq(req[r].mws, 1, n)
         /\ req[r].trace[n] = req[r].short
         /\ ~InTrace(r, req[r].handler)
         /\ req[r].pc \in {"unwind", "settled", "done"}
         /\ req[r].val.kind = "ok"
         /\ (req[r].pc = "settled" /\ ~req[r].wrapped) =>
              req[r].val = OkVal(ShortResponse(req[r].short))

\* C6 witness: on GET /a, g1 and g2 pass the result of next() on, m1 returns
\* a response of its own; handle has settled with it and m2 and h1 never ran.
C6_Witness ==
  \E r \in Reqs :
    /\ req[r].pc = "settled"
    /\ req[r].route = 1
    /\ req[r].short = "m1"
    /\ ~req[r].wrapped
    /\ req[r].trace = <<"g1", "g2", "m1">>
    /\ req[r].val = OkVal(UserResponse("m1"))

\* ------------------------------------------------------------------------
\* Claims about the request pipeline
\* ------------------------------------------------------------------------

\* C7: a fault raised by a middleware or by the handler reaches the caller
\* of handle as it was raised, through every middleware awaiting next(),
\* and the pipeline answers it with one 500 response whose body is
\* {error: 'Internal Server Error', message}.
C7_FaultBecomes500 ==
  \A r \in Reqs :
    req[r].raised # "" =>
      /\ req[r].pc \in {"unwind", "settled", "done"}
      /\ req[r].val = FaultVal(req[r].raised)
      /\ req[r].pc = "done" =>
           /\ res[r].ended
           /\ res[r].writes = 1
           /\ res[r].statusCode = 500
           /\ res[r].body.kind = "json"
           /\ res[r].body.error = "Internal Server Error"
           /\ res[r].body.message \in {req[r].raised, "An unexpected error occurred"}

\* C7 witness: the handler threw below a middleware that awaits next() to
\* replace the response, and the request was answered 500.
C7_Witness ==
  \E r \in Reqs :
    /\ req[r].pc = "done"
    /\ req[r].raised = "boom"
    /\ req[r].wrapped
    /\ InTrace(r, req[r].handler)
    /\ res[r].statusCode = 500

\* C8: with debug off the 500 written for a fault is one fixed response,
\* whatever the fault's message; the fault's text is in a 500 body only
\* with debug on, and then it is the message of the fault raised.
C8_FaultTextOnlyInDebug ==
  \A r \in Reqs :
    res[r].via = "500" =>
      /\ res[r].statusCode = 500
      /\ ~config.debug =>
           res[r].body = ErrorBody("Internal Server Error", "An unexpected error occurred")
      /\ res[r].body.message \in FaultMessages => config.debug
      /\ config.debug =>
           res[r].body = ErrorBody("Internal Server Error", req[r].raised)

\* C8 witness: debug is off, the fault said "secret", the 500 does not.
C8_Witness ==
  \E r \in Reqs :
    /\ ~config.debug
    /\ res[r].via = "500"
    /\ req[r].raised = "secret"
    /\ res[r].body.message = "An unexpected error occurred"

TooLarge == BadRequest("Request body too large")

\* C9 as stated: a finished request whose body is larger than the ceiling
\* was answered 400 'Request body too large' and never reached the Router.
C9_Original ==
  \A r \in Reqs :
    (req[r].pc = "done" /\ SumSeq(req[r].payload) > MAX_BODY_SIZE) =>
      /\ res[r].statusCode = 400
      /\ res[r].body = TooLarge.body
      /\ req[r].trace = <<>>

\* C9: a request of which parseBody has read more than MAX_BODY_SIZE bytes
\* is rejected with 'Request body too large', never reaches the Router (no
\* route resolved, no middleware and no handler invoked), and is answered
\* once, with 400 {error: 'Bad Request', message: 'Request body too large'}.
C9_OversizedBodyRead ==
  \A r \in Reqs :
    req[r].bodySize > MAX_BODY_SIZE =>
      /\ req[r].method # "OPTIONS"
      /\ req[r].rejected
      /\ req[r].settle = "rejected"
      /\ req[r].bodyMsg = "Request body too large"
      /\ req[r].pc \in {"body", "done"}
      /\ req[r].route = 0
      /\ req[r].trace = <<>>
      /\ req[r].val = NoVal
      /\ req[r].pc = "done" =>
           /\ res[r].writes = 1
           /\ res[r].statusCode = 400
           /\ res[r].body = TooLarge.body

\* C9 witness: the second chunk took the body over the ceiling and the
\* request was answered 400.
C9_Witness ==
  \E r \in Reqs :
    /\ req[r].pc = "done"
    /\ Len(req[r].payload) = 2
    /\ req[r].bodySize = MAX_BODY_SIZE + 1
    /\ res[r].statusCode = 400
    /\ res[r].body.message = "Request body too large"

CorsAndSecurityHeaders ==
  {"Access-Control-Allow-Origin", "Access-Control-Allow-Methods",
   "Access-Control-Allow-Headers", "Access-Control-Max-Age",
   "X-Content-Type-Options", "X-Frame-Options", "Content-Security-Policy",
   "X-XSS-Protection"}

\* C10: a request with method OPTIONS is answered at once with 204 and no
\* body, the CORS and security headers set; its body is never read and
\* Router.handle is never called for it, whether or not a route for OPTIONS
\* on its path is registered.
C10_PreflightAnsweredBeforeRouter ==
  \A r \in Reqs :
    req[r].method = "OPTIONS" =>
      /\ req[r].pc = "done"
      /\ res[r].ended
      /\ res[r].writes = 1
      /\ res[r].statusCode = 204
      /\ res[r].body = NoBody
      /\ \A name \in CorsAndSecurityHeaders : HasHeader(res[r].headers, name)
      /\ req[r].stream = "none"
      /\ req[r].nread = 0
      /\ req[r].settle = "pending"
      /\ req[r].route = 0
      /\ req[r].trace = <<>>
      /\ req[r].val = NoVal

\* C10 witness: OPTIONS /a answered 204 although any('/a') registered a
\* route for OPTIONS /a, which match resolves.
C10_Witness ==
  \E r \in Reqs :
    /\ req[r].method = "OPTIONS"
    /\ req[r].path = TA
    /\ req[r].payload # <<>>
    /\ res[r].statusCode = 204
    /\ Match(routes, pathPatterns, "OPTIONS", TA).idx # 0

\* The request of slot r has been handed to Router.handle.
Dispatched(r) ==
  \/ req[r].pc \in {"chain", "unwind", "settled"}
  \/ req[r].pc = "done" /\ res[r].via \in {"404", "result", "500"}

\* C11: when no registered route matches the request's method and path,
\* Router.handle settles with null and no middleware (global ones included)
\* and no handler has been invoked; the pipeline answers once, with 404 and
\* the body {error: 'Not Found', message: 'The requested endpoint does not
\* exist'}.
C11_NoMatchIsNullAnd404 ==
  \A r \in Reqs :
    (Dispatched(r) /\ Candidates(req[r].method, req[r].path) = {}) =>
      /\ req[r].pc \in {"settled", "done"}
      /\ req[r].val = NullVal
      /\ req[r].route = 0
      /\ req[r].trace = <<>>
      /\ req[r].pc = "done" =>
           /\ res[r].via = "404"
           /\ res[r].writes = 1
           /\ res[r].statusCode = 404
           /\ res[r].body = ErrorBody("Not Found", "The requested endpoint does not exist")

\* C11 witness: GET /a/b matches neither /:p nor /a; it was answered 404 and
\* the global middlewares registered did not run.
C11_Witness ==
  \E r \in Reqs :
    /\ req[r].pc = "done"
    /\ req[r].method = "GET"
    /\ req[r].path = <<"/", "a", "/", "b">>
    /\ Candidates(req[r].method, req[r].path) = {}
    /\ globalMiddlewares # <<>>
    /\ req[r].trace = <<>>
    /\ res[r].statusCode = 404

\* C12: with rate limiting enabled the rate-limit middleware is the first
\* code invoked for every matched request, and a request it does not admit
\* is answered 429 {error: 'Too Many Requests', message} with no other
\* middleware and no handler invoked; with rate limiting disabled the
\* middleware never runs and no response has status 429.
C12_RefusedIs429BeforeUserCode ==
  \A r \in Serial :
    /\ (config.rateLimit.enabled /\ req[r].trace # <<>>) =>
         /\ req[r].trace[1] = RateLimitMw
         /\ (lastCall.op = "isAllowed" /\ ~lastCall.allowed) =>
              /\ req[r].trace = <<RateLimitMw>>
              /\ req[r].pc \in {"unwind", "settled", "done"}
              /\ req[r].val = OkVal(TooManyRequests)
              /\ req[r].pc = "done" =>
                   /\ res[r].writes = 1
                   /\ res[r].statusCode = 429
                   /\ res[r].body = ErrorBody("Too Many Requests",
                                              "Rate limit exceeded, please try again later")
    /\ ~config.rateLimit.enabled =>
         /\ ~InTrace(r, RateLimitMw)
         /\ res[r].statusCode # 429

\* C12 witness: the second GET /a of a client with a quota of one is
\* answered 429; g1, m1 and h1 did not run for it.
C12_Witness ==
  \E r \in Serial :
    /\ config.rateLimit.enabled
    /\ limit = 1
    /\ req[r].pc = "done"
    /\ req[r].route = 1
    /\ req[r].trace = <<RateLimitMw>>
    /\ ~lastCall.allowed
    /\ res[r].statusCode = 429

RateLimitHeaders == {"X-RateLimit-Limit", "X-RateLimit-Remaining", "X-RateLimit-Reset"}

\* C13 as stated: with rate limiting enabled every response written carries
\* the three X-RateLimit headers.
C13_Original ==
  \A r \in Reqs :
    (config.rateLimit.enabled /\ res[r].ended) =>
      \A name \in RateLimitHeaders : HasHeader(res[r].headers, name)

\* C13: with rate limiting enabled, the response to a request that reached
\* the rate-limit middleware (the handler's response, the 429 and the 500)
\* carries X-RateLimit-Limit, X-RateLimit-Remaining and X-RateLimit-Reset,
\* the first with the limiter's quota; the 204 of a preflight, the 400 of a
\* body fault and the 404 of an unmatched request carry none of the three.
C13_HeadersOnlyPastTheLimiter ==
  \A r \in Reqs :
    (config.rateLimit.enabled /\ res[r].ended) =>
      IF res[r].via \in {"result", "500"}
        THEN /\ InTrace(r, RateLimitMw)
             /\ \A name \in RateLimitHeaders : HasHeader(res[r].headers, name)
             /\ <<"X-RateLimit-Limit", limit>> \in res[r].headers
        ELSE /\ res[r].via \in {"preflight", "400", "404"}
             /\ \A name \in RateLimitHeaders : ~HasHeader(res[r].headers, name)

\* C13 witness: a refused request's 429 carries the three headers.
C13_Witness ==
  \E r \in Reqs :
    /\ config.rateLimit.enabled
    /\ res[r].ended
    /\ res[r].statusCode = 429
    /\ \A name \in RateLimitHeaders : HasHeader(res[r].headers, name)

\* C14: the allow-origin decision on every response, for every Origin and
\* allowedDomains: Origin absent, or the list empty, or '*' in the list:
\* Access-Control-Allow-Origin is * and there is no Vary; otherwise, Origin
\* in the list: the Origin is echoed and Vary is Origin; otherwise there is
\* no Access-Control-Allow-Origin. There is never more than one value.
C14_AllowOriginDecision ==
  \A r \in Reqs :
    req[r].pc # "idle" =>
      LET o == req[r].origin
          d == config.allowedDomains
          h == res[r].headers
          acao == {p \in h : p[1] = "Access-Control-Allow-Origin"}
      IN IF o = "" \/ d = {} \/ "*" \in d
           THEN acao = {<<"Access-Control-Allow-Origin", "*">>} /\ ~HasHeader(h, "Vary")
         ELSE IF o \in d
           THEN /\ acao = {<<"Access-Control-Allow-Origin", o>>}
                /\ {p \in h : p[1] = "Vary"} = {<<"Vary", "Origin">>}
         ELSE acao = {} /\ ~HasHeader(h, "Vary")

\* C14 witness: a request from an Origin that is not allowed is processed
\* all the same: its handler ran and its response, without the header, was
\* written.
C14_Witness ==
  \E r \in Reqs :
    /\ config.allowedDomains = {"o1"}
    /\ req[r].origin = "o2"
    /\ req[r].pc = "done"
    /\ res[r].via = "result"
    /\ res[r].statusCode = 200
    /\ InTrace(r, req[r].handler)
    /\ ~HasHeader(res[r].headers, "Access-Control-Allow-Origin")

Hsts == <<"Strict-Transport-Security", "max-age=31536000; includeSubDomains">>

\* The headers setCorsHeaders and setSecurityHeaders set whatever the
\* request and the configuration are
FixedHeaders ==
  {<<"Access-Control-Allow-Methods", "GET, POST, PUT, DELETE, PATCH, OPTIONS">>,
   <<"Access-Control-Allow-Headers", "Content-Type, Authorization">>,
   <<"Access-Control-Max-Age", "86400">>,
   <<"X-Content-Type-Options", "nosniff">>,
   <<"X-Frame-Options", "DENY">>,
   <<"Content-Security-Policy", "default-src 'self'; script-src 'self'; object-src 'none'">>,
   <<"X-XSS-Protection", "1; mode=block">>}

\* C15: every response written (204, 400, 404, 429, 500 and the handlers'
\* responses) carries the CORS methods, headers and max-age headers and the
\* four security headers, and carries Strict-Transport-Security exactly
\* when the server is configured with useHttps or useHttp2.
C15_CorsAndSecurityOnEveryResponse ==
  \A r \in Reqs :
    res[r].ended =>
      /\ FixedHeaders \subseteq res[r].headers
      /\ HasHeader(res[r].headers, Hsts[1]) <=> (config.useHttps \/ config.useHttp2)
      /\ HasHeader(res[r].headers, Hsts[1]) => Hsts \in res[r].headers

\* C15 witness: the 400 of a server with useHttp2 and without useHttps
\* carries the headers, Strict-Transport-Security among them.
C15_Witness ==
  \E r \in Reqs :
    /\ config.useHttp2
    /\ ~config.useHttps
    /\ res[r].ended
    /\ res[r].statusCode = 400
    /\ FixedHeaders \subseteq res[r].headers
    /\ Hsts \in res[r].headers

\* ------------------------------------------------------------------------
\* Claims about path templates
\* ------------------------------------------------------------------------

\* The segments of a template or path that starts with "/": the texts
\* between its slashes, the last one empty when it ends in a slash.
RECURSIVE SegmentEnd(_, _)
SegmentEnd(s, i) == IF i > Len(s) \/ s[i] = "/" THEN i ELSE SegmentEnd(s, i + 1)

RECURSIVE SegmentsFrom(_, _)
SegmentsFrom(s, i) ==
  LET e == SegmentEnd(s, i)
  IN IF e > Len(s) THEN <<SubSeq(s, i, e - 1)>>
     ELSE <<SubSeq(s, i, e - 1)>> \o SegmentsFrom(s, e + 1)

Segments(s) == SegmentsFrom(s, 2)

IsParamSegment(seg) == Len(seg) >= 2 /\ seg[1] = ":"
NameOf(seg) == SubSeq(seg, 2, Len(seg))
IsWildcardTemplate(ts) == ts[Len(ts)] = <<"*">>

\* The path segments ps are the template segments ts with a non-empty text
\* at every :name segment.
Instantiates(ps, ts) ==
  /\ Len(ps) = Len(ts)
  /\ \A i \in 1..Len(ts) :
       IF IsParamSegment(ts[i]) THEN ps[i] # <<>> ELSE ps[i] = ts[i]

\* The template registered and the path of the last call of match
TheTemplate == Segments(routes[1].path)
ThePath == Segments(lastMatch.path)

\* C16: for a template with :name segments (and no wildcard), a path of as
\* many segments whose literal segments are the template's is matched, and
\* params has exactly the template's names as keys, each bound to the path
\* segment at its place; and whenever the template matches, every name is
\* bound to one whole, non-empty path segment (never to an empty text or
\* to a text with a "/").
C16_NamesBoundToSegments ==
  (lastMatch.method # "" /\ ~IsWildcardTemplate(TheTemplate)
     /\ \E i \in 1..Len(TheTemplate) : IsParamSegment(TheTemplate[i])) =>
    LET ts == TheTemplate
        ps == ThePath
        at == {i \in 1..Len(ts) : IsParamSegment(ts[i])}
    IN /\ Instantiates(ps, ts) => lastMatch.idx = 1
       /\ lastMatch.idx = 1 =>
            /\ DOMAIN lastMatch.params = {NameOf(ts[i]) : i \in at}
            /\ \A i \in at :
                 /\ i <= Len(ps)
                 /\ ps[i] # <<>>
                 /\ lastMatch.params[NameOf(ts[i])] = ps[i]

\* C16 witness: /:p/:q matched /a/b with params {p: 'a', q: 'b'}.
C16_Witness ==
  /\ routes[1].path = <<"/", ":", "p", "/", ":", "q">>
  /\ lastMatch.path = <<"/", "a", "/", "b">>
  /\ lastMatch.idx = 1
  /\ lastMatch.params[<<"p">>] = <<"a">>
  /\ lastMatch.params[<<"q">>] = <<"b">>

\* The segments from the one at index i on, joined by "/"
RECURSIVE JoinFrom(_, _)
JoinFrom(segs, i) ==
  IF i > Len(segs) THEN <<>>
  ELSE IF i = Len(segs) THEN segs[i]
  ELSE segs[i] \o <<"/">> \o JoinFrom(segs, i + 1)

\* C17: a template ending in /* matches its prefix path, without a trailing
\* slash and with one, binding wildcard to the empty string, and matches
\* every deeper path, binding wildcard to the whole remainder after the
\* prefix's slash; the names before the wildcard are bound to their path
\* segments and params has no other key.
C17_WildcardTakesTheRemainder ==
  (lastMatch.method # "" /\ IsWildcardTemplate(TheTemplate)) =>
    LET k == Len(TheTemplate) - 1
        pre == SubSeq(TheTemplate, 1, k)
        ps == ThePath
        at == {i \in 1..k : IsParamSegment(pre[i])}
        bound == /\ lastMatch.idx = 1
                 /\ DOMAIN lastMatch.params = {NameOf(pre[i]) : i \in at} \cup {WildcardName}
                 /\ \A i \in at : lastMatch.params[NameOf(pre[i])] = ps[i]
    IN /\ (k >= 1 /\ Instantiates(ps, pre)) =>
            bound /\ lastMatch.params[WildcardName] = <<>>
       /\ (Len(ps) > k /\ Instantiates(SubSeq(ps, 1, k), pre)) =>
            bound /\ lastMatch.params[WildcardName] = JoinFrom(ps, k + 1)

\* C17 witness: /:p/* matched /a/b/a with params {p: 'a', wildcard: 'b/a'}.
C17_Witness ==
  /\ routes[1].path = <<"/", ":", "p", "/", "*">>
  /\ lastMatch.path = <<"/", "a", "/", "b", "/", "a">>
  /\ lastMatch.idx = 1
  /\ lastMatch.params[<<"p">>] = <<"a">>
  /\ lastMatch.params[WildcardName] = <<"b", "/", "a">>

EndsInSlash(ts) == ts[Len(ts)] = <<>>

\* C18 as stated: a template with no trailing wildcard (and no trailing
\* slash of its own, such as /a or /a/:pq) matches its path both without
\* and with a trailing slash.
C18_Original ==
  (lastMatch.method # "" /\ ~IsWildcardTemplate(TheTemplate) /\ ~EndsInSlash(TheTemplate)) =>
    /\ Instantiates(ThePath, TheTemplate) => lastMatch.idx = 1
    /\ Instantiates(ThePath, TheTemplate \o <<<<>>>>) => lastMatch.idx = 1

\* C18: a template with no trailing wildcard matches its own path; the
\* trailing slash is optional only for a template that itself ends in a
\* slash: /a/ matches /a/ and /a, whereas /a (or /a/:pq) does not match its
\* path followed by a slash.
C18_SlashOptionalOnlyIfInTemplate ==
  (lastMatch.method # "" /\ ~IsWildcardTemplate(TheTemplate)) =>
    LET ts == TheTemplate
        ps == ThePath
    IN /\ Instantiates(ps, ts) => lastMatch.idx = 1
       /\ (~EndsInSlash(ts) /\ Instantiates(ps, ts \o <<<<>>>>)) => lastMatch.idx = 0
       /\ (EndsInSlash(ts) /\ Len(ts) >= 2 /\ Instantiates(ps, SubSeq(ts, 1, Len(ts) - 1)))
            => lastMatch.idx = 1

\* C18 witness: /a is registered and /a/ does not match it.
C18_Witness ==
  /\ routes[1].path = <<"/", "a">>
  /\ lastMatch.path = <<"/", "a", "/">>
  /\ lastMatch.idx = 0

\* ---------------------------------------------------------------------
\* Claims about request bodies
\* ---------------------------------------------------------------------
\* The whole text a request sends
SentText(r) == ConcatAll(req[r].texts)

\* The index of the last pair of a form that has the key k
LastPairWith(pairs, k) ==
  CHOOSE i \in 1..Len(pairs) :
    pairs[i][1] = k /\ \A j \in (i + 1)..Len(pairs) : pairs[j][1] # k

\* The body stream of request r ended normally, within the size limit.
CompletedNormally(r) == req[r].stream = "ended" /\ ~req[r].rejected

InvalidJson == BadRequest("Invalid JSON in request body")

\* C19: when the body stream completes normally, a request that sent no
\* byte has the body {} whatever its content type; otherwise, under
\* application/json the body is the parsed JSON value, or the parsing fault
\* 'Invalid JSON in request body' answered with 400 Bad Request when the
\* text is malformed; under application/x-www-form-urlencoded it is a flat
\* map from the names to string values in which a repeated name has its
\* last value; under any other content type it is the raw text.
C19_BodyDecidedByContentType ==
  \A r \in Reqs :
    CompletedNormally(r) =>
      LET text == SentText(r)
          ct == req[r].contentType
          pairs == URLSearchParams(text)
          resolvedTo(v) == req[r].settle = "resolved" /\ req[r].body = v
      IN IF text = <<>> THEN resolvedTo(EmptyObject)
         ELSE IF Includes(ct, "application/json")
           THEN IF JSONParse(text).ok
                  THEN resolvedTo(JSONParse(text).value)
                  ELSE /\ req[r].settle = "rejected"
                       /\ req[r].body = Undefined
                       /\ req[r].bodyMsg = "Invalid JSON in request body"
                       /\ req[r].trace = <<>>
                       /\ req[r].pc = "done" =>
                            /\ res[r].statusCode = 400
                            /\ res[r].body = InvalidJson.body
         ELSE IF Includes(ct, "application/x-www-form-urlencoded")
           THEN /\ req[r].settle = "resolved"
                /\ req[r].body.k = "object"
                /\ req[r].body.members = NoMembers
                /\ DOMAIN req[r].body.form = {pairs[i][1] : i \in 1..Len(pairs)}
                /\ \A k \in DOMAIN req[r].body.form :
                     req[r].body.form[k] = pairs[LastPairWith(pairs, k)][2]
         ELSE resolvedTo(StringValue(text))

\* C19 witness: a form sent in two chunks, a=1& and a=2, was parsed to the
\* map {a: '2'}.
C19_Witness ==
  /\ CompletedNormally(1)
  /\ req[1].contentType = <<"application/x-www-form-urlencoded">>
  /\ req[1].texts = <<<<"a", "=", "1", "&">>, <<"a", "=", "2">>>>
  /\ req[1].settle = "resolved"
  /\ DOMAIN req[1].body.form = {<<"a">>}
  /\ req[1].body.form[<<"a">>] = <<"2">>

\* ---------------------------------------------------------------------
\* Claims about response serialization
\* ---------------------------------------------------------------------
\* respond was called for request r.
Serialized(r) == res[r].via \notin {"none", "preflight"}

\* C20: a response that respond serializes goes out as the head (status
\* and headers) followed by exactly one end of the response, whose payload
\* is decided by the first case that applies: none for a null or absent
\* body, also when isRaw is set; the body as it is for an isRaw body; the
\* string as it is for a string body; the JSON text of the body otherwise.
C20_HeadThenBodyByOneCase ==
  \A r \in Reqs :
    Serialized(r) =>
      LET b == res[r].body
          w == res[r].wire
      IN /\ Len(w) = 2
         /\ w[1].op = "writeHead"
         /\ w[2].op = "end"
         /\ IF b.kind \in {"null", "none"}
              THEN w[2].enc = "none" /\ w[2].data = <<>>
            ELSE IF res[r].isRaw \/ b.kind = "string"
              THEN w[2].enc = "verbatim" /\ w[2].data = <<b.src>>
            ELSE /\ w[2].enc = "json"
                 /\ w[2].data = Stringify(b)

\* C20 witness: a handler returned the string 'hi' without isRaw and the
\* response ended with hi, not with its JSON text "hi".
C20_Witness ==
  /\ res[1].via = "result"
  /\ res[1].body = StringBody("hi")
  /\ ~res[1].isRaw
  /\ res[1].wire = <<WroteHead, EndWith("hi")>>

\* ------------------------------------------------------------------------
\* Claims about the rate limiter's queries and its sweep
\* ------------------------------------------------------------------------
\* The step is a call of the query op.
IsQueryStep(op) == lastCall'.op = op /\ lastCall' # lastCall

\* What the limiter holds
LimiterState == <<limit, windowMs, requests, nextSweep>>

\* C21: getRemainingRequests(key) leaves the limiter's state as it was; it
\* returns limit when the key has no entry or its entry's window has
\* elapsed (resetTime < now), and max(0, limit - count) otherwise, a value in
\* 0..limit also when count has grown past limit.
C21_RemainingIsPureAndBounded ==
  /\ [][IsQueryStep("getRemainingRequests") => UNCHANGED LimiterState]_vars
  /\ []((lastCall.op = "getRemainingRequests" /\ lastCall.at = now) =>
          LET entry == requests[Key(lastCall.ip)]
          IN /\ lastCall.value \in 0..limit
             /\ (entry = NoEntry \/ entry.resetTime < now) => lastCall.value = limit
             /\ (entry # NoEntry /\ entry.resetTime >= now /\ entry.count <= limit)
                  => lastCall.value = limit - entry.count
             /\ (entry # NoEntry /\ entry.resetTime >= now /\ entry.count > limit)
                  => lastCall.value = 0)

\* C21 witness: the query was made on a live entry whose count is past the
\* limit and returned 0.
C21_Witness ==
  /\ lastCall.op = "getRemainingRequests"
  /\ lastCall.at = now
  /\ requests[Key(lastCall.ip)] # NoEntry
  /\ requests[Key(lastCall.ip)].resetTime >= now
  /\ requests[Key(lastCall.ip)].count > limit
  /\ lastCall.value = 0

\* The key's entry is there and its window has not elapsed.
Live(k) == requests[k] # NoEntry /\ requests[k].resetTime >= now

\* s is the whole number of seconds in ms milliseconds.
IsFloorSeconds(s, ms) == s * 1000 <= ms /\ ms < s * 1000 + 1000

\* C22: getResetTime(key) leaves the limiter's state as it was and returns
\* whole seconds: those of now + windowMs when the key has no entry or an
\* elapsed one, those of the entry's resetTime otherwise. For a live entry
\* that is the end of the window the key's first call opened, whenever in
\* the window the query is made, also for the window a later isAllowed
\* opens after the earlier one has elapsed.
C22_ResetTimeIsPureAndStable ==
  /\ [][IsQueryStep("getResetTime") => UNCHANGED LimiterState]_vars
  /\ []((lastCall.op = "getResetTime" /\ lastCall.at = now) =>
          LET k == Key(lastCall.ip)
          IN /\ ~Live(k) => IsFloorSeconds(lastCall.value, now + windowMs)
             /\ Live(k) => /\ IsFloorSeconds(lastCall.value, requests[k].resetTime)
                           /\ refStart[k] # None
                           /\ IsFloorSeconds(lastCall.value, refStart[k] + windowMs))

\* C22 witness: the query is made at the last instant of a window opened
\* after instant 0, and returns the end of that window, not an instant one
\* window from now.
C22_Witness ==
  /\ lastCall.op = "getResetTime"
  /\ lastCall.at = now
  /\ Live(Key(lastCall.ip))
  /\ refStart[Key(lastCall.ip)] > 0
  /\ now = refStart[Key(lastCall.ip)] + windowMs
  /\ lastCall.value * 1000 <= now

\* The step is a run of the sweep: only the sweep re-arms the timer.
IsSweepStep == nextSweep' # nextSweep

\* C23: the sweep is due one window after construction and then one window
\* after each of its runs; a run deletes the entries whose resetTime is
\* before now and leaves every other entry as it is, so that the entries
\* that remain are live and no live entry is removed.
C23_SweepDeletesExactlyTheExpired ==
  [][IsSweepStep =>
       /\ now >= nextSweep
       /\ nextSweep >= windowMs
       /\ nextSweep' = now + windowMs
       /\ now' = now
       /\ \A k \in Keys :
            /\ (requests[k] # NoEntry /\ requests[k].resetTime < now)
                 => requests'[k] = NoEntry
            /\ ~(requests[k] # NoEntry /\ requests[k].resetTime < now)
                 => requests'[k] = requests[k]
            /\ requests'[k] # NoEntry => requests'[k].resetTime >= now]_vars

\* C23 witness: after a sweep, the entry of a key that has called is gone
\* while another key's entry is still there, at the last instant of its
\* window.
C23_Witness ==
  /\ nextSweep > windowMs
  /\ \E k \in Keys : refStart[k] # None /\ requests[k] = NoEntry
  /\ \E k \in Keys : requests[k] # NoEntry /\ requests[k].resetTime = now

\* The step is a call of isAllowed.
IsAllowedStep == ncalls' = ncalls + 1 /\ lastCall'.op = "isAllowed"

\* The key the claim gives an address: 'unknown' for an empty or undefined
\* one, the address otherwise
KeyFor(ip) == IF ip = "" THEN "unknown" ELSE ip

\* C24: isAllowed(ip) creates or changes the entry of ip's key only, and
\* leaves the count and resetTime of every other key as they were; an empty
\* or undefined address has the key 'unknown', so that all calls without an
\* address count on one entry; and a call is admitted or refused on the
\* count of its own key alone.
C24_EntriesArePerKey ==
  [][IsAllowedStep =>
       LET k == KeyFor(lastCall'.ip)
       IN /\ k \in Keys
          /\ requests'[k] # NoEntry
          /\ requests'[k].count >= 1
          /\ \A other \in DOMAIN requests \ {k} : requests'[other] = requests[other]
          /\ lastCall'.allowed <=> requests'[k].count <= limit]_vars

\* C24 witness: a call without an address is refused on the entry
\* 'unknown', which at least one earlier call counted on, while the entry
\* of ip1 stays at its one call, within the quota.
C24_Witness ==
  /\ lastCall.op = "isAllowed"
  /\ lastCall.ip = ""
  /\ ~lastCall.allowed
  /\ limit = 1
  /\ requests["unknown"] # NoEntry
  /\ requests["unknown"].count = 2
  /\ requests["ip1"] # NoEntry
  /\ requests["ip1"].count = 1

\* ------------------------------------------------------------------------
\* Claims about the listener
\* ------------------------------------------------------------------------
PathsMissing == config.sslCert = "" \/ config.sslKey = ""

\* C25: once createServer has run, by itself or from start: with useHttps
\* or useHttp2 set and the certificate path or the key path missing, it has
\* thrown the fault that the paths are required, having read no file, and
\* no socket has been opened; with neither flag set it has returned a
\* plaintext listener, whatever the paths.
C25_MissingPathsFaultBeforeAnyRead ==
  server.kind # "none" =>
    /\ ((config.useHttps \/ config.useHttp2) /\ PathsMissing) =>
         /\ server.kind = "fault"
         /\ server.msg \in
              {"SSL certificate and key paths are required when useHttps is true",
               "SSL certificate and key paths are required when useHttp2 is true"}
         /\ server.reads = <<>>
         /\ ~server.listening
    /\ (~config.useHttps /\ ~config.useHttp2) =>
         /\ server.kind = "http"
         /\ server.reads = <<>>

\* C25 witness: an HTTP/2 listener was asked for with a certificate path
\* but no key path, and the fault was thrown.
C25_Witness ==
  /\ config.useHttp2
  /\ config.sslCert = "cert.pem"
  /\ config.sslKey = ""
  /\ server.kind = "fault"
  /\ server.reads = <<>>

\* ------------------------------------------------------------------------
\* Claims about the context's helpers
\* ------------------------------------------------------------------------
\* The handler of request r has answered through a helper of a set bound
\* by status().
AnsweredBound(r) ==
  /\ req[r].call.codes # <<>>
  /\ req[r].pc \in {"unwind", "settled", "done"}

\* The response of the same helper of the context itself, called with the
\* same content and content type and no status
Unbound(call) == Helper(call.name, call.content, call.contentType, None)

LastCode(call) == call.codes[Len(call.codes)]

\* C26 as stated: every helper of the set status(code) returns, redirect
\* included, gives a response whose statusCode is code, with the body and
\* headers of the unbound helper; after status(a).status(b) the code is b.
C26_Original ==
  \A r \in Reqs :
    AnsweredBound(r) =>
      LET call == req[r].call
          resp == req[r].val.resp
      IN /\ resp.statusCode = LastCode(call)
         /\ resp.body = Unbound(call).body
         /\ resp.headers = Unbound(call).headers

\* C26 amended: text, json, html, form and binary of the set status(code)
\* returns give a response whose statusCode is code, with the body,
\* headers and isRaw of the unbound helper, and after status(a).status(b)
\* the code is b; redirect of that set does not take the code: its
\* statusCode is the status given to redirect itself, 302 when none is
\* given, with a null body and the Location header, as for the unbound
\* redirect.
C26_StatusBindsAllButRedirect ==
  \A r \in Reqs :
    AnsweredBound(r) =>
      LET call == req[r].call
          resp == req[r].val.resp
      IN /\ resp.body = Unbound(call).body
         /\ resp.headers = Unbound(call).headers
         /\ resp.isRaw = Unbound(call).isRaw
         /\ call.name # "redirect" => resp.statusCode = LastCode(call)
         /\ call.name = "redirect" =>
              /\ resp.statusCode = (IF call.status = None THEN 302 ELSE call.status)
              /\ resp.body = NullBody
              /\ resp.headers = {<<"Location", call.content>>}
         /\ req[r].pc = "done" =>
              /\ res[r].statusCode = resp.statusCode
              /\ res[r].body = resp.body
              /\ resp.headers \subseteq res[r].headers

\* C26 witness: status(404).status(201).text(...) was answered with 201 and
\* the content type text/plain.
C26_Witness ==
  /\ req[1].pc = "done"
  /\ req[1].call.codes = <<404, 201>>
  /\ req[1].call.name = "text"
  /\ res[1].statusCode = 201
  /\ <<"Content-Type", "text/plain">> \in res[1].headers

\* ------------------------------------------------------------------------
\* Claims about any()
\* ------------------------------------------------------------------------
SixMethods == {"GET", "POST", "PUT", "DELETE", "PATCH", "OPTIONS"}

\* C27: after any('/a', ...mws, h1) the route table holds one route for
\* each of GET, POST, PUT, DELETE, PATCH and OPTIONS and no other, all with
\* the handler h1 and the middleware list mws; Router.handle resolves a
\* request of each of these methods on /a to the route of its method, and
\* runs the global middlewares, then mws, then h1; a request of another
\* method, or on another path, resolves to no route and runs nothing.
C27_AnyRegistersSixMethods ==
  /\ Len(routes) = 6
  /\ {routes[i].method : i \in 1..Len(routes)} = SixMethods
  /\ \A i \in 1..Len(routes) :
       /\ routes[i].path = <<"/", "a">>
       /\ routes[i].handler = "h1"
       /\ routes[i].middlewares = routes[1].middlewares
  /\ \A r \in Reqs :
       req[r].pc # "idle" =>
         IF req[r].method \in SixMethods /\ req[r].path = <<"/", "a">>
           THEN /\ req[r].route # 0
                /\ routes[req[r].route].method = req[r].method
                /\ req[r].handler = "h1"
                /\ req[r].mws = globalMiddlewares \o routes[1].middlewares
                /\ IsPrefix(req[r].trace, req[r].mws \o <<"h1">>)
                /\ req[r].pc = "settled" =>
                     /\ req[r].trace = req[r].mws \o <<"h1">>
                     /\ req[r].val = OkVal(UserResponse("h1"))
           ELSE /\ req[r].route = 0
                /\ req[r].pc = "settled"
                /\ req[r].val = NullVal
                /\ req[r].trace = <<>>

\* C27 witness: an OPTIONS request on /a settled with h1's response after
\* g1, m1 and h1 ran.
C27_Witness ==
  /\ req[1].method = "OPTIONS"
  /\ req[1].pc = "settled"
  /\ req[1].trace = <<"g1", "m1", "h1">>
  /\ req[1].val = OkVal(UserResponse("h1"))

\* ------------------------------------------------------------------------
\* Claims about request contexts
\* ------------------------------------------------------------------------
\* handle has built a context for request r.
HasContext(r) == req[r].route # 0

\* The properties of a with those of b set over them
Overlay(a, b) ==
  [k \in DOMAIN a \cup DOMAIN b |-> IF k \in DOMAIN b THEN b[k] ELSE a[k]]

\* What the field of r's context holds as handle builds it
AsBuilt(r, field) ==
  CASE field = "params" -> Match(routes, pathPatterns, req[r].method, req[r].path).params
    [] field = "query" -> FormData(URLSearchParams(req[r].search), NoParams)
    [] OTHER -> NoParams

\* C28: the contexts of two requests dispatched through handle share none
\* of params, query and state, and each of these holds, whatever the
\* middlewares of requests in flight at the same time have written to
\* theirs, what handle built it with (the params of the match, the query of
\* the url, an empty state) and what the request's own middlewares wrote.
C28_ContextsShareNothing ==
  \A r \in Reqs :
    HasContext(r) =>
      /\ \A f \in ContextFields :
           heap[req[r].context[f]] = Overlay(AsBuilt(r, f), req[r].own[f])
      /\ \A r2 \in Reqs \ {r} :
           HasContext(r2) =>
             {req[r].context[f] : f \in ContextFields}
               \cap {req[r2].context[f] : f \in ContextFields} = {}

\* C28 witness: with both requests in their chains, the middleware of
\* request 1 has written to its state, params and query, and the context
\* of request 2 holds an empty state, the matched params and its own query.
C28_Witness ==
  /\ req[1].pc = "chain"
  /\ req[2].pc = "chain"
  /\ heap[req[1].context.state] = (<<"k">> :> <<"v", "1">>)
  /\ heap[req[1].context.params] = (<<"p">> :> <<"v", "1">>)
  /\ <<"q">> \in DOMAIN req[1].own.query
  /\ heap[req[2].context.state] = NoParams
  /\ heap[req[2].context.params] = (<<"p">> :> <<"a">>)
  /\ heap[req[2].context.query] = (<<"q">> :> <<"0">>)

\* ------------------------------------------------------------------------
\* Claims about the entries of the rate limiter
\* ------------------------------------------------------------------------
\* C29: a call of isAllowed on a key with a live entry (resetTime >= now)
\* adds one to its count, whether the call is admitted or refused, and
\* leaves its resetTime as it is, so that the count of a live entry is the
\* number of calls made in its window, also past the limit; a call on a key
\* with no entry or with an elapsed one (resetTime < now) puts a fresh entry
\* with count 1 and resetTime now + windowMs; and no other step changes the
\* count or the resetTime of an entry (a sweep only deletes entries).
C29_EveryCallCountsWindowFixed ==
  /\ [][IF IsAllowedStep
          THEN LET k == KeyFor(lastCall'.ip)
                   old == requests[k]
               IN /\ (old # NoEntry /\ old.resetTime >= now) =>
                       /\ requests'[k].count = old.count + 1
                       /\ requests'[k].resetTime = old.resetTime
                  /\ (old = NoEntry \/ old.resetTime < now) =>
                       requests'[k] = [count |-> 1, resetTime |-> now + windowMs]
          ELSE \A k \in Keys : requests'[k] \in {requests[k], NoEntry}]_vars
  /\ [](\A k \in Keys : Live(k) => requests[k].count = refN[k])

\* C29 witness: a call was refused on a live entry whose count is already
\* two past the limit.
C29_Witness ==
  /\ lastCall.op = "isAllowed"
  /\ ~lastCall.allowed
  /\ Live(Key(lastCall.ip))
  /\ requests[Key(lastCall.ip)].count = limit + 2

\* ---------------------------------------------------------------------
\* Claims about templates of literal segments

\* No segment of the template is a :name and the template does not end in /*
IsLiteralTemplate(t) ==
  /\ \A i \in 1..Len(t) : ~ParamAt(t, i)
  /\ ~(Len(t) >= 2 /\ t[Len(t) - 1] = "/" /\ t[Len(t)] = "*")

\* s without its trailing slash, if it has one
WithoutTrailingSlash(s) ==
  IF Len(s) >= 1 /\ s[Len(s)] = "/" THEN SubSeq(s, 1, Len(s) - 1) ELSE s

\* C30: a template made only of literal segments matches a path only if the
\* path is the template character for character, a trailing slash apart:
\* never a longer path it is a prefix of, never a path that differs in a
\* character, whatever characters the template holds.
C30_LiteralTemplatesMatchVerbatim ==
  (/\ lastMatch.method # ""
   /\ IsLiteralTemplate(routes[1].path)
   /\ lastMatch.idx # 0)
  => WithoutTrailingSlash(lastMatch.path) = WithoutTrailingSlash(routes[1].path)

\* ---------------------------------------------------------------------
\* Claims about the acquisition of the body

\* The step delivers a data chunk to the listeners of request r
IsDataStep(r) == served' = served /\ req'[r].nread = req[r].nread + 1

\* The body promise of request r, as far as it is settled
BodyResult(r) == <<req[r].settle, req[r].bodyMsg, req[r].body>>

\* C31: the data chunk that takes the byte count of a body above
\* MAX_BODY_SIZE rejects the body with 'Request body too large' at once,
\* while the stream is still open; a body of exactly MAX_BODY_SIZE bytes
\* that has ended is resolved and the size fault is raised for no body of
\* at most MAX_BODY_SIZE bytes; after the size fault no chunk is buffered
\* and no event of the stream changes the result; and a settled result
\* never changes.
C31_SizeFaultAtTheCrossingChunk ==
  /\ [][\A r \in Reqs :
          (IsDataStep(r) /\ req[r].bodySize <= MAX_BODY_SIZE
                         /\ req'[r].bodySize > MAX_BODY_SIZE) =>
            /\ req[r].settle = "pending"
            /\ req'[r].settle = "rejected"
            /\ req'[r].bodyMsg = "Request body too large"
            /\ req'[r].rejected
            /\ req'[r].stream = "open"
            /\ req'[r].bodyChunks = req[r].bodyChunks]_vars
  /\ [](\A r \in Reqs :
          /\ (req[r].stream = "ended" /\ req[r].bodySize = MAX_BODY_SIZE) =>
               (req[r].settle = "resolved" /\ req[r].nchunks = Len(req[r].payload))
          /\ req[r].bodyMsg = "Request body too large" =>
               req[r].bodySize > MAX_BODY_SIZE)
  /\ [][\A r \in Reqs :
          (served' = served /\ req[r].rejected) =>
            /\ req'[r].bodyChunks = req[r].bodyChunks
            /\ req'[r].nchunks = req[r].nchunks
            /\ BodyResult(r)' = BodyResult(r)]_vars
  /\ [][\A r \in Reqs :
          (served' = served /\ req[r].settle # "pending") =>
            BodyResult(r)' = BodyResult(r)]_vars

\* C31 witness: the first chunk crossed the ceiling, a second chunk and
\* the end of the stream followed, and the body is still the size fault
\* with nothing buffered.
C31_Witness ==
  \E r \in Reqs :
    /\ req[r].payload = <<MAX_BODY_SIZE + 1, 1>>
    /\ req[r].nread = 2
    /\ req[r].stream = "ended"
    /\ req[r].settle = "rejected"
    /\ req[r].bodyMsg = "Request body too large"
    /\ req[r].bodyChunks = <<>>

\* ---------------------------------------------------------------------
\* Claims about the answers of the pipeline

\* The pipeline answered request r with its own 404 Not Found
AnsweredNotFound(r) ==
  /\ req[r].pc = "done"
  /\ res[r].via = "404"
  /\ res[r].statusCode = 404
  /\ res[r].body = NotFound.body

\* C32: the pipeline's 404 Not Found is written only for requests that no
\* registered route matches: a request that is not OPTIONS, whose body
\* parsed and which matched a route is never answered with it, whatever
\* its middlewares and its handler return.
C32_NotFoundOnlyWithoutMatch ==
  \A r \in Reqs :
    AnsweredNotFound(r) =>
      /\ req[r].route = 0
      /\ Match(routes, pathPatterns, req[r].method, req[r].path).idx = 0

\* ---------------------------------------------------------------------
\* Claims about the index of the chain

\* The entries of trace that are the handler's, and those that are not
HandlerRuns(r) == SelectSeq(req[r].trace, LAMBDA id : id = req[r].handler)
MiddlewareRuns(r) == SelectSeq(req[r].trace, LAMBDA id : id # req[r].handler)

\* C33: within one request currentIndex never goes back; the middlewares
\* invoked so far are the first currentIndex ones of the combined list,
\* each once and in the order of the list; the handler is invoked only
\* when every middleware has been, so that no middleware is invoked after
\* it - also when middlewares call next() again; and when no middleware
\* calls next() more than once the handler is invoked at most once.
C33_IndexOnlyAdvances ==
  /\ [][\A r \in Reqs : served' = served => req'[r].idx >= req[r].idx]_vars
  /\ [](\A r \in Reqs :
          req[r].route # 0 =>
            /\ req[r].idx <= Len(req[r].mws)
            /\ MiddlewareRuns(r) = SubSeq(req[r].mws, 1, req[r].idx)
            /\ req[r].trace = MiddlewareRuns(r) \o HandlerRuns(r)
            /\ HandlerRuns(r) # <<>> => req[r].idx = Len(req[r].mws)
            /\ req[r].again = 0 => Len(HandlerRuns(r)) <= 1)

\* C33 witness: a middleware called next() a second time after the handler
\* had run, and the handler ran again; no middleware ran twice.
C33_Witness ==
  \E r \in Reqs :
    /\ req[r].again > 0
    /\ Len(HandlerRuns(r)) = 2
    /\ MiddlewareRuns(r) = req[r].mws
    /\ Len(req[r].mws) >= 2

\* ---------------------------------------------------------------------
\* Claims about the sweep and the interface of the rate limiter

\* C34: the sweep is not observable through the interface: whatever
\* isAllowed, getRemainingRequests or getResetTime returns is what the same
\* call returns on a limiter that got the same calls at the same instants
\* and was never swept, now and for every later call (the two limiters
\* differ only in entries whose window has elapsed, which every call
\* treats as absent); and with sweeps between the calls of a key no more
\* than limit calls of a window are admitted.
C34_SweepIsUnobservable ==
  \A k \in Keys :
    /\ lastCall.op = "isAllowed" => lastCall.allowed = twin.allowed
    /\ lastCall.op \in {"getRemainingRequests", "getResetTime"} =>
         lastCall.value = twin.value
    /\ IF Expired(twin.requests[k], now)
         THEN Expired(requests[k], now)
         ELSE requests[k] = twin.requests[k]
    /\ refAdmitted[k] <= limit

\* C34 witness: a sweep has deleted an entry that the unswept limiter
\* still holds, and a call of isAllowed that opened a new window after the
\* sweep was admitted by both limiters.
C34_Witness ==
  \E k \in Keys :
    /\ lastCall.op = "isAllowed"
    /\ Key(lastCall.ip) = k
    /\ lastCall.allowed
    /\ twin.allowed
    /\ nextSweep > windowMs
    /\ refN[k] = 1
    /\ ncalls >= 2
    /\ \E j \in Keys : requests[j] = NoEntry /\ twin.requests[j] # NoEntry

\* ---------------------------------------------------------------------
\* Claims about the headers of the rate-limit middleware

\* The step is rateLimitMiddleware running for request r
IsRateLimitStep(r) ==
  /\ served' = served
  /\ req'[r].trace = Append(req[r].trace, RateLimitMw)

\* The key request r is counted under
ClientKey(r) == Key(req[r].ip)

\* The step's call of isAllowed refused request r
Refused(r) == req'[r].val = OkVal(TooManyRequests)

\* C35: when rateLimitMiddleware runs for a request, in one step with the
\* call of isAllowed that counts it, X-RateLimit-Remaining is the limit less
\* the calls counted earlier in the key's live window, floored at 0 (the
\* limit when the call opens a new window), and X-RateLimit-Reset is the
\* end of that window in seconds, both as they were before the request was
\* counted; the request is refused at that instant exactly if the Remaining
\* it carries is 0; and a finished request that passed the limiter was
\* answered 429 exactly if its Remaining is 0.
C35_HeadersReadBeforeCounting ==
  /\ [][\A r \in Reqs :
          IsRateLimitStep(r) =>
            LET k == ClientKey(r)
                fresh == RefOpens(k, now)
                earlier == IF fresh THEN 0 ELSE refN[k]
                ends == IF fresh THEN now + windowMs ELSE refStart[k] + windowMs
            IN /\ <<"X-RateLimit-Remaining", Max(0, limit - earlier)>> \in res'[r].headers
               /\ <<"X-RateLimit-Reset", ends \div 1000>> \in res'[r].headers
               /\ refN'[k] = earlier + 1
               /\ requests'[k].count = earlier + 1
               /\ Refused(r) <=> <<"X-RateLimit-Remaining", 0>> \in res'[r].headers]_vars
  /\ [](\A r \in Reqs :
          (req[r].pc = "done" /\ InTrace(r, RateLimitMw)) =>
            (res[r].statusCode = 429 <=> <<"X-RateLimit-Remaining", 0>> \in res[r].headers))

\* C35 witness: a request was answered 429 with X-RateLimit-Remaining 0
\* while another request of the same client, counted before it, was still
\* in flight.
C35_Witness ==
  \E r1, r2 \in Reqs :
    /\ r1 # r2
    /\ req[r1].pc = "done"
    /\ res[r1].statusCode = 429
    /\ <<"X-RateLimit-Remaining", 0>> \in res[r1].headers
    /\ req[r2].pc \in {"chain", "unwind", "settled"}
    /\ InTrace(r2, RateLimitMw)
    /\ req[r2].ip = req[r1].ip

\* ---------------------------------------------------------------------
\* Claims about what consumes quota

\* The entries of trace that are the rate-limit middleware's
RateLimitRuns(r) == SelectSeq(req[r].trace, LAMBDA id : id = RateLimitMw)

\* C36: the limiter's entries change only when the rate-limit middleware
\* runs for a request, which it does at most once per request and only for
\* a request that is not OPTIONS, whose body parsed and which matched a
\* route; it then counts one call under the client's key and touches no
\* other key. A preflight, a request answered 400 for its body and a
\* request answered 404 for want of a route never ran the middleware, and
\* the steps that answer them leave the limiter as it was.
C36_QuotaOnlyForRoutedRequests ==
  /\ [][\A r \in Reqs :
          IsRateLimitStep(r) =>
            /\ req[r].method # "OPTIONS"
            /\ req[r].settle = "resolved"
            /\ req[r].route # 0
            /\ RateLimitRuns(r) = <<>>
            /\ ncalls' = ncalls + 1
            /\ requests'[ClientKey(r)].count =
                 IF Expired(requests[ClientKey(r)], now) THEN 1
                 ELSE requests[ClientKey(r)].count + 1
            /\ \A k \in Keys \ {ClientKey(r)} : requests'[k] = requests[k]]_vars
  /\ [][(LimiterState' # LimiterState \/ ncalls' # ncalls) =>
          \E r \in Reqs : IsRateLimitStep(r)]_vars
  /\ [](\A r \in Reqs :
          /\ Len(RateLimitRuns(r)) <= 1
          /\ (req[r].pc = "done" /\ res[r].via \in {"preflight", "400", "404"}) =>
               RateLimitRuns(r) = <<>>
          /\ (req[r].pc = "done" /\ config.rateLimit.enabled
                /\ res[r].via \in {"result", "500"}) =>
               Len(RateLimitRuns(r)) = 1)

\* C36 witness: with rate limiting enabled a request was answered 404 for
\* want of a route after an earlier request had been counted, and the
\* client's count is still 1.
C36_Witness ==
  \E r \in Reqs :
    /\ config.rateLimit.enabled
    /\ req[r].pc = "done"
    /\ res[r].via = "404"
    /\ req[r].ip = "ip1"
    /\ ncalls = 1
    /\ requests["ip1"].count = 1

\* The calls of writeHead that took effect on the response of request r
HeadsWritten(r) == SelectSeq(res[r].wire, LAMBDA e : e = WroteHead)

\* C37: for every request the head of the response is written at most
\* once, and once requestHandler has finished exactly one of the 204 of the
\* preflight, the 400 of the body fault, the handler's response, the 404
\* and the 500 has been written, head and body, with no fault left over -
\* also when the handler's response cannot be serialized; for a result
\* marked _handled the pipeline has written nothing and the response is
\* the handler's own.
C37_OneResponsePerRequest ==
  \A r \in Reqs :
    /\ Len(HeadsWritten(r)) <= 1
    /\ req[r].pc = "done" =>
         IF req[r].val.kind = "handled"
           THEN res[r].via = "handler" /\ res[r].writes = 1
           ELSE /\ res[r].ended
                /\ res[r].writes = 1
                /\ res[r].thrown = ""
                /\ res[r].via \in {"preflight", "400", "result", "404", "500"}

\* requestHandler is at work on the request of slot r
InProgress(r) == req[r].pc \notin {"idle", "done"}

\* The response the claim gives the request of slot r has been written
AnsweredAsDue(r) ==
  /\ res[r].ended
  /\ res[r].thrown = ""
  /\ IF req[r].method = "OPTIONS" THEN res[r].via = "preflight" /\ res[r].statusCode = 204
     ELSE IF req[r].settle = "rejected" THEN res[r].via = "400" /\ res[r].statusCode = 400
     ELSE IF req[r].route = 0 THEN res[r].via = "404" /\ res[r].statusCode = 404
     ELSE IF req[r].val.kind = "fault" THEN res[r].via = "500" /\ res[r].statusCode = 500
     ELSE res[r].via \in {"result", "handler"}

\* C38: under fair scheduling every request that requestHandler has taken
\* up is finished, and a finished request has been answered: 204 for
\* OPTIONS, 400 for a body fault, 404 for no match, 500 for a fault of the
\* chain and otherwise the handler's response; none is left without an
\* answer.
C38_EveryRequestAnswered ==
  /\ \A r \in Reqs : InProgress(r) ~> req[r].pc = "done"
  /\ [](\A r \in Reqs : req[r].pc = "done" => AnsweredAsDue(r))

\* ---------------------------------------------------------------------
\* Claims about the body of the context

\* Router.handle has built a context for the request of slot r
HasRoute(r) == req[r].settle = "resolved" /\ req[r].route # 0

\* C39: the body of the context of a matched request is the value
\* parseBody resolved with; for a JSON content type that is the value of
\* JSON.parse of the text received, for every valid document, also for
\* null, false, 0 and "".
C39_ContextBodyIsTheParsedBody ==
  \A r \in Reqs :
    HasRoute(r) =>
      /\ req[r].contextBody = req[r].body
      /\ (Includes(req[r].contentType, "application/json") /\ req[r].bodyChunks # <<>>) =>
           req[r].contextBody = JSONParse(ConcatAll(req[r].bodyChunks)).value

\* ---------------------------------------------------------------------
\* Claims about registration

\* the route table holds a route without a cached pattern
RouteWithoutPattern ==
  \E i \in 1..Len(routes) : routes[i].path \notin DOMAIN pathPatterns

\* what a request resolves to: the index of the route and the params
Resolution(rts, pps, method, path) ==
  LET m == Match(rts, pps, method, path) IN [idx |-> m.idx, params |-> m.params]

\* C40: use() and each registration only append to the list of global
\* middlewares and to the route table, leaving the earlier entries as they
\* are; the pattern cached for a template is the one createPathPattern
\* gives for that template; so every registered route has a cached pattern
\* whenever match runs, and a request that resolved to a route resolves to
\* the same route and params after any further registration.
C40_RegistrationOnlyAppends ==
  /\ [][/\ IsPrefix(routes, routes')
        /\ IsPrefix(globalMiddlewares, globalMiddlewares')
        /\ \A t \in DOMAIN pathPatterns :
             t \in DOMAIN pathPatterns' /\ pathPatterns'[t] = pathPatterns[t]
        /\ \A method \in RequestMethods, path \in RequestPaths :
             Resolution(routes, pathPatterns, method, path).idx # 0 =>
               Resolution(routes', pathPatterns', method, path)
                 = Resolution(routes, pathPatterns, method, path)]_vars
  /\ [](\A t \in DOMAIN pathPatterns : pathPatterns[t] = CreatePathPattern(t))
  /\ [](~RouteWithoutPattern)

====
